---------------------------- MODULE Spec2Model ----------------------------
(***************************************************************************)
(* A model of the paper content-extraction pipeline of bxsbot              *)
(* (src/src/parser): the structural segmenter, the formula detector, the   *)
(* table detector, the image extractor and the orchestrator.               *)
(*                                                                         *)
(* Text is a sequence of characters.  A character is a string: an ASCII    *)
(* character stands for itself, a non-ASCII character is named by its code *)
(* point ("U+03B8").  Byte offsets, which the Rust code uses for str       *)
(* slicing and len(), are computed from the UTF-8 width of each character. *)
(***************************************************************************)
EXTENDS Naturals, Integers, Sequences, FiniteSets, TLC

VARIABLES seg,   \* PdfParser::extract_structured_text: locals of one call
          tab,   \* TableParser::extract: locals of one call
          fex,   \* FormulaExtractor::extract: locals of one call
          img,   \* ImageAnalyzer::extract_images: locals of one call, and the disk
          pipe,  \* ExtractionPipeline::process: locals of one call, and the disk
          walk,  \* ImageAnalyzer::collect_all_image_ids: locals of one call
          par,   \* two calls of ExtractionPipeline::process in parallel, and the disk
          refs,  \* ImageAnalyzer::page_references_object: the call stack of one walk
          crawl, \* crawl_command: the loop over the papers, and the database
          search, \* ArxivCrawler::search: locals of one call, and the clock
          trans  \* parse_translation_response: one call

vars == <<seg, tab, fex, img, pipe, walk, par, refs, crawl, search, trans>>

\* A component that is not running in the specification at hand.
Idle == [pc |-> "idle"]

---------------------------------------------------------------------------
(* Generic helpers *)

SetMin(S) == CHOOSE x \in S : \A y \in S : x <= y
SetMax(S) == CHOOSE x \in S : \A y \in S : x >= y
MinOf(a, b) == IF a <= b THEN a ELSE b
MaxOf(a, b) == IF a >= b THEN a ELSE b

RECURSIVE Concat(_)
\* The concatenation of a sequence of sequences.
Concat(ss) == IF ss = <<>> THEN <<>> ELSE Head(ss) \o Concat(Tail(ss))

RECURSIVE Join(_, _)
\* The elements of ss joined by sep.
Join(ss, sep) ==
    IF ss = <<>> THEN <<>>
    ELSE IF Len(ss) = 1 THEN ss[1]
    ELSE ss[1] \o sep \o Join(Tail(ss), sep)

RECURSIVE Repeat(_, _)
Repeat(c, n) == IF n = 0 THEN <<>> ELSE <<c>> \o Repeat(c, n - 1)

\* All sequences over S of length 0..n.
SeqUpTo(S, n) == UNION {[1..k -> S] : k \in 0..n}

\* The elements of a finite set of numbers in increasing order.
SortedSeq(S) ==
    [i \in 1..Cardinality(S) |-> CHOOSE x \in S : Cardinality({y \in S : y < x}) = i - 1]

---------------------------------------------------------------------------
(* Characters *)

ChTheta == "U+03B8"   \* Greek small theta, 2 bytes in UTF-8
ChEAcute == "U+00E9"  \* Latin small e with acute, 2 bytes
ChSum == "U+2211"     \* N-ary summation, 3 bytes
ChLe == "U+2264"      \* less-than or equal to, 3 bytes
ChCJK == "U+4E2D"     \* a CJK ideograph, 3 bytes
ChEmoji == "U+1F600"  \* an emoji, 4 bytes

UpperSeq == <<"A","B","C","D","E","F","G","H","I","J","K","L","M",
              "N","O","P","Q","R","S","T","U","V","W","X","Y","Z">>
LowerSeq == <<"a","b","c","d","e","f","g","h","i","j","k","l","m",
              "n","o","p","q","r","s","t","u","v","w","x","y","z">>
Upper == {UpperSeq[i] : i \in 1..26}
Lower == {LowerSeq[i] : i \in 1..26}
AsciiLetter == Upper \cup Lower
Digit == {"0","1","2","3","4","5","6","7","8","9"}

\* char::is_whitespace / regex \s, over the characters used here.
IsWs(c) == c \in {" ", "\t", "\n", "\r"}

\* char::len_utf8
Utf8Len(c) ==
    IF c \in {ChTheta, ChEAcute} THEN 2
    ELSE IF c \in {ChSum, ChLe, ChCJK} THEN 3
    ELSE IF c = ChEmoji THEN 4
    ELSE 1

RECURSIVE ByteLen(_)
\* str::len: the length of s in bytes.
ByteLen(s) == IF s = <<>> THEN 0 ELSE Utf8Len(Head(s)) + ByteLen(Tail(s))

\* char::to_lowercase / the (?i) flag, over ASCII.
ToLowerChar(c) ==
    IF c \in Upper THEN LowerSeq[CHOOSE i \in 1..26 : UpperSeq[i] = c] ELSE c
ToLower(s) == [i \in 1..Len(s) |-> ToLowerChar(s[i])]

\* str::trim: s without its leading and trailing whitespace.
Trim(s) ==
    LET keep == {i \in 1..Len(s) : ~IsWs(s[i])}
    IN  IF keep = {} THEN <<>> ELSE SubSeq(s, SetMin(keep), SetMax(keep))

\* A line of str::lines loses the "\r" of a "\r\n" ending.
StripCr(s) ==
    IF s # <<>> /\ s[Len(s)] = "\r" THEN SubSeq(s, 1, Len(s) - 1) ELSE s

RECURSIVE Lines(_)
\* str::lines: the text split at "\n"; a final line ending adds no empty line.
Lines(t) ==
    IF t = <<>> THEN <<>>
    ELSE LET nls == {i \in 1..Len(t) : t[i] = "\n"}
         IN  IF nls = {} THEN <<t>>
             ELSE LET p == SetMin(nls)
                  IN  <<StripCr(SubSeq(t, 1, p - 1))>>
                        \o Lines(SubSeq(t, p + 1, Len(t)))

\* The number of consecutive whitespace characters of s from index i on.
WsRun(s, i) ==
    LET stop == {j \in i..Len(s) : ~IsWs(s[j])}
    IN  IF i > Len(s) THEN 0
        ELSE IF stop = {} THEN Len(s) - i + 1 ELSE SetMin(stop) - i

\* The number of consecutive digits of s from index i on.
DigitRun(s, i) ==
    LET stop == {j \in i..Len(s) : s[j] \notin Digit}
    IN  IF i > Len(s) THEN 0
        ELSE IF stop = {} THEN Len(s) - i + 1 ELSE SetMin(stop) - i

---------------------------------------------------------------------------
(* Option values *)

None == <<>>
Some(x) == <<x>>

---------------------------------------------------------------------------
(* PdfParser::extract_structured_text  (src/src/parser/pdf_parser.rs)       *)

S_untitled == <<"(","u","n","t","i","t","l","e","d",")">>
S_abstract == <<"a","b","s","t","r","a","c","t">>
S_related == <<"r","e","l","a","t","e","d">>
S_work == <<"w","o","r","k">>

\* The alternatives of heading_patterns[2] other than Related\s+Work, in
\* lower case (the pattern is case-insensitive).
KnownSectionNames ==
    { S_abstract,
      <<"i","n","t","r","o","d","u","c","t","i","o","n">>,
      <<"m","e","t","h","o","d">>, <<"m","e","t","h","o","d","s">>,
      <<"m","e","t","h","o","d","o","l","o","g","y">>,
      <<"e","x","p","e","r","i","m","e","n","t">>,
      <<"e","x","p","e","r","i","m","e","n","t","s">>,
      <<"r","e","s","u","l","t">>, <<"r","e","s","u","l","t","s">>,
      <<"d","i","s","c","u","s","s","i","o","n">>,
      <<"c","o","n","c","l","u","s","i","o","n">>,
      <<"c","o","n","c","l","u","s","i","o","n","s">>,
      <<"a","c","k","n","o","w","l","e","d","g","m","e","n","t">>,
      <<"a","c","k","n","o","w","l","e","d","g","m","e","n","t","s">>,
      <<"r","e","f","e","r","e","n","c","e","s">>,
      <<"a","p","p","e","n","d","i","x">>,
      <<"b","a","c","k","g","r","o","u","n","d">> }

\* The tail shared by heading_patterns[0] and [1], matched from index p of s:
\*   \.?\s+([A-Z][A-Za-z\s]+)$
HeadingTail(s, p) ==
    LET q == IF p <= Len(s) /\ s[p] = "." THEN p + 1 ELSE p
        w == WsRun(s, q)
        u == q + w
    IN  /\ w >= 1
        /\ u <= Len(s)
        /\ s[u] \in Upper
        /\ u + 1 <= Len(s)
        /\ \A k \in (u + 1)..Len(s) : s[k] \in AsciiLetter \/ IsWs(s[k])

\* heading_patterns[0]:  ^(\d+)\.?\s+([A-Z][A-Za-z\s]+)$
MatchesNumbered(s) ==
    LET d == DigitRun(s, 1) IN d >= 1 /\ HeadingTail(s, d + 1)

\* heading_patterns[1]:  ^(\d+\.\d+)\.?\s+([A-Z][A-Za-z\s]+)$
MatchesSubNumbered(s) ==
    LET d1 == DigitRun(s, 1)
        d2 == DigitRun(s, d1 + 2)
    IN  /\ d1 >= 1
        /\ d1 + 1 <= Len(s)
        /\ s[d1 + 1] = "."
        /\ d2 >= 1
        /\ HeadingTail(s, d1 + 2 + d2)

\* heading_patterns[2]:  (?i)^(Abstract|Introduction|Related\s+Work|...)$
MatchesKnownName(s) ==
    LET l == ToLower(s)
    IN  \/ l \in KnownSectionNames
        \/ /\ Len(l) >= Len(S_related) + 1 + Len(S_work)
           /\ SubSeq(l, 1, Len(S_related)) = S_related
           /\ SubSeq(l, Len(l) - Len(S_work) + 1, Len(l)) = S_work
           /\ \A k \in (Len(S_related) + 1)..(Len(l) - Len(S_work)) : IsWs(l[k])

\* The level the if / else-if chain of the loop body gives a trimmed line;
\* 0 when no pattern matches (the line is body text).
HeadingLevel(trimmed) ==
    IF MatchesNumbered(trimmed) THEN 1
    ELSE IF MatchesSubNumbered(trimmed) THEN 2
    ELSE IF MatchesKnownName(trimmed) THEN 1
    ELSE 0

MutPushSectionWithoutSentinel(sections, heading, level, body) ==
    LET body_trimmed == Trim(body)
    IN  IF heading = <<>> /\ body_trimmed = <<>> THEN sections
        ELSE Append(sections,
                    [heading |-> heading, level |-> level, body |-> body_trimmed])

MutPushSectionDropsEmptyBody(sections, heading, level, body) ==
    LET body_trimmed == Trim(body)
    IN  IF body_trimmed = <<>> THEN sections
        ELSE Append(sections,
                    [heading |-> IF heading = <<>> THEN S_untitled ELSE heading,
                     level |-> level, body |-> body_trimmed])

\* PdfParser::push_section
PushSection(sections, heading, level, body) ==
    LET body_trimmed == Trim(body)
    IN  IF heading = <<>> /\ body_trimmed = <<>> THEN sections
        ELSE Append(sections,
                    [heading |-> IF heading = <<>> THEN S_untitled ELSE heading,
                     level |-> level, body |-> body_trimmed])

\* The locals of extract_structured_text before its loop.
SegStart(full_text) ==
    LET lines == Lines(full_text)
        nonEmpty == {k \in 1..Len(lines) : Trim(lines[k]) # <<>>}
    IN  [pc |-> "loop", lines |-> lines, i |-> 1,
         sections |-> <<>>, current_heading |-> <<>>, current_level |-> 0,
         current_body |-> <<>>,
         title |-> IF nonEmpty = {} THEN None
                   ELSE Some(Trim(lines[SetMin(nonEmpty)])),
         abstract_text |-> None]

MutSegBlankStepFlushes(st) ==
    [st EXCEPT !.i = st.i + 1,
               !.sections = PushSection(st.sections, st.current_heading,
                                        st.current_level, st.current_body),
               !.current_body = <<>>]

\* One iteration of the loop over the lines, on a blank line.
SegBlankStep(st) ==
    [st EXCEPT !.i = st.i + 1,
               !.current_body = IF st.current_body # <<>>
                                THEN Append(st.current_body, "\n")
                                ELSE st.current_body]

\* One iteration of the loop, on a line that matches a heading pattern.
SegHeadingStep(st, trimmed, level) ==
    [st EXCEPT !.i = st.i + 1,
               !.sections = PushSection(st.sections, st.current_heading,
                                        st.current_level, st.current_body),
               !.current_heading = trimmed,
               !.current_level = level,
               !.current_body = <<>>]

\* One iteration of the loop, on a line that matches no heading pattern.
SegBodyStep(st, trimmed) ==
    [st EXCEPT !.i = st.i + 1,
               !.current_body = (IF st.current_body # <<>>
                                 THEN Append(st.current_body, " ")
                                 ELSE st.current_body) \o trimmed]

\* After the loop: the last section is pushed and the metadata is built.
SegFinishStep(st) ==
    LET sections == PushSection(st.sections, st.current_heading,
                                st.current_level, st.current_body)
        abs == {k \in 1..Len(sections) : ToLower(sections[k].heading) = S_abstract}
    IN  [st EXCEPT !.pc = "done",
                   !.sections = sections,
                   !.abstract_text = IF abs = {} THEN None
                                     ELSE Some(sections[SetMin(abs)].body)]

SegStep(st) ==
    IF st.i > Len(st.lines) THEN SegFinishStep(st)
    ELSE LET trimmed == Trim(st.lines[st.i])
             level == HeadingLevel(trimmed)
         IN  IF trimmed = <<>> THEN SegBlankStep(st)
             ELSE IF level > 0 THEN SegHeadingStep(st, trimmed, level)
             ELSE SegBodyStep(st, trimmed)

RECURSIVE SegRun(_)
SegRun(st) == IF st.pc = "done" THEN st ELSE SegRun(SegStep(st))

\* The (metadata, sections) pair extract_structured_text returns.
ExtractStructuredText(full_text) ==
    LET st == SegRun(SegStart(full_text))
    IN  [metadata |-> [title |-> st.title, title_zh |-> None, authors |-> <<>>,
                       abstract_text |-> st.abstract_text, abstract_zh |-> None],
         sections |-> st.sections]

---------------------------------------------------------------------------
(* The segmenter as a state machine, one action per kind of loop iteration *)

\* Scenario 1 of the design's testable properties:
\*   "1. Introduction\nThis is background.\n\n2. Methods\nWe propose X."
SegScenarioText ==
    <<"1","."," ","I","n","t","r","o","d","u","c","t","i","o","n","\n",
      "T","h","i","s"," ","i","s"," ","b","a","c","k","g","r","o","u","n","d",".","\n",
      "\n",
      "2","."," ","M","e","t","h","o","d","s","\n",
      "W","e"," ","p","r","o","p","o","s","e"," ","X",".">>

\* The lines the enumerated texts are made of.
SegLineVocabulary ==
    { <<"1","."," ","A","b">>,            \* "1. Ab"     numbered heading
      <<"2"," ","C","d">>,                \* "2 Cd"      numbered, no dot
      <<"1",".","1"," ","E","f">>,        \* "1.1 Ef"    sub-numbered heading
      <<" ","A","b","s","t","r","a","c","t"," ">>,  \* " Abstract " named heading
      <<"r","e","l","a","t","e","d"," "," ","W","O","R","K">>, \* "related  WORK"
      <<>>,                               \* ""          blank
      <<" ","\t">>,                       \* " \t"       blank after trim
      <<"x","y">>,                        \* "xy"        body
      <<"1","."," ","x">> }               \* "1. x"      body: no capital

MaxSegLines == 3

SegTexts ==
    {SegScenarioText}
      \cup {Join(ls, <<"\n">>) : ls \in SeqUpTo(SegLineVocabulary, MaxSegLines)}

SegCurrentLine == Trim(seg.lines[seg.i])

SegInLoop == seg.pc = "loop" /\ seg.i <= Len(seg.lines)

SegOthersIdle == tab = Idle /\ fex = Idle /\ img = Idle /\ pipe = Idle /\ walk = Idle /\ par = Idle /\ refs = Idle /\ crawl = Idle /\ search = Idle /\ trans = Idle

SegInit ==
    /\ seg \in {SegStart(t) : t \in SegTexts}
    /\ SegOthersIdle

SegBlankLine ==
    /\ SegInLoop
    /\ SegCurrentLine = <<>>
    /\ seg' = SegStep(seg)
    /\ UNCHANGED <<tab, fex, img, pipe, walk, par, refs, crawl, search, trans>>

SegNumberedHeading ==
    /\ SegInLoop
    /\ SegCurrentLine # <<>>
    /\ MatchesNumbered(SegCurrentLine)
    /\ seg' = SegStep(seg)
    /\ UNCHANGED <<tab, fex, img, pipe, walk, par, refs, crawl, search, trans>>

SegSubNumberedHeading ==
    /\ SegInLoop
    /\ SegCurrentLine # <<>>
    /\ ~MatchesNumbered(SegCurrentLine)
    /\ MatchesSubNumbered(SegCurrentLine)
    /\ seg' = SegStep(seg)
    /\ UNCHANGED <<tab, fex, img, pipe, walk, par, refs, crawl, search, trans>>

SegNamedHeading ==
    /\ SegInLoop
    /\ SegCurrentLine # <<>>
    /\ ~MatchesNumbered(SegCurrentLine)
    /\ ~MatchesSubNumbered(SegCurrentLine)
    /\ MatchesKnownName(SegCurrentLine)
    /\ seg' = SegStep(seg)
    /\ UNCHANGED <<tab, fex, img, pipe, walk, par, refs, crawl, search, trans>>

SegBodyLine ==
    /\ SegInLoop
    /\ SegCurrentLine # <<>>
    /\ HeadingLevel(SegCurrentLine) = 0
    /\ seg' = SegStep(seg)
    /\ UNCHANGED <<tab, fex, img, pipe, walk, par, refs, crawl, search, trans>>

SegFinish ==
    /\ seg.pc = "loop"
    /\ seg.i > Len(seg.lines)
    /\ seg' = SegStep(seg)
    /\ UNCHANGED <<tab, fex, img, pipe, walk, par, refs, crawl, search, trans>>

SegNext ==
    \/ SegBlankLine
    \/ SegNumberedHeading
    \/ SegSubNumberedHeading
    \/ SegNamedHeading
    \/ SegBodyLine
    \/ SegFinish

SpecSections == SegInit /\ [][SegNext]_vars

---------------------------------------------------------------------------
(* Claims about the segmenter *)

\* The indices, among the first n lines, of the lines that are headings.
SegHeadingLines(n) ==
    {k \in 1..n : Trim(seg.lines[k]) # <<>> /\ HeadingLevel(Trim(seg.lines[k])) > 0}

\* Non-blank text precedes the first heading among the first n lines (or there
\* is no heading among them).
SegLeadingText(n) ==
    \E k \in 1..n : /\ Trim(seg.lines[k]) # <<>>
                    /\ \A h \in SegHeadingLines(n) : k < h

\* The headings of the sections due for the first n lines, in document order.
SegDueHeadings(n) ==
    LET hs == SortedSeq(SegHeadingLines(n))
    IN  (IF SegLeadingText(n) THEN <<S_untitled>> ELSE <<>>)
          \o [j \in 1..Len(hs) |-> Trim(seg.lines[hs[j]])]

SegHeadingsOf(sections) == [j \in 1..Len(sections) |-> sections[j].heading]

SegScenarioSections ==
    << [heading |-> <<"1","."," ","I","n","t","r","o","d","u","c","t","i","o","n">>,
        level |-> 1,
        body |-> <<"T","h","i","s"," ","i","s"," ","b","a","c","k","g","r","o","u","n","d",".">>],
       [heading |-> <<"2","."," ","M","e","t","h","o","d","s">>,
        level |-> 1,
        body |-> <<"W","e"," ","p","r","o","p","o","s","e"," ","X",".">>] >>

\* C9: extract_structured_text emits its Sections in document order, exactly
\* one per heading line plus one leading "(untitled)" Section when non-blank text
\* precedes the first heading.  While the loop runs, every Section due for the
\* lines read so far has been flushed except the one being accumulated, whose
\* heading is the last heading line read; at the end of the text that last
\* Section is flushed too.  The text of scenario 1 yields exactly its two
\* level-1 Sections.
C9_SectionsPerHeadingInOrder ==
    /\ seg.pc = "loop" =>
         LET n == seg.i - 1
             due == SegDueHeadings(n)
         IN  /\ SegHeadingsOf(seg.sections)
                  = IF SegHeadingLines(n) = {} THEN <<>>
                    ELSE SubSeq(due, 1, Len(due) - 1)
             /\ seg.current_heading
                  = IF SegHeadingLines(n) = {} THEN <<>> ELSE due[Len(due)]
    /\ seg.pc = "done" =>
         /\ SegHeadingsOf(seg.sections) = SegDueHeadings(Len(seg.lines))
         /\ Len(seg.sections)
              = Cardinality(SegHeadingLines(Len(seg.lines)))
                  + (IF SegLeadingText(Len(seg.lines)) THEN 1 ELSE 0)
         /\ seg.lines = Lines(SegScenarioText) => seg.sections = SegScenarioSections

\* A finished run with leading text and two headings, the first without body.
C9_Witness ==
    /\ seg.pc = "done"
    /\ Len(seg.sections) = 3
    /\ seg.sections[1].heading = S_untitled
    /\ seg.sections[2].body = <<>>
    /\ seg.sections[3].level = 2

\* The scenario text has been segmented.
C9_ScenarioReached ==
    seg.pc = "done" /\ seg.lines = Lines(SegScenarioText)

---------------------------------------------------------------------------
(* TableParser  (src/src/parser/table_parser.rs)                           *)
(* Line indices are 1-based here and 0-based in the Rust code.             *)

S_table == <<"t","a","b","l","e">>

\* table_caption_re on a trimmed line:  (?i)^Table\s+(\d+)[.:]?\s*(.*)$
IsTableCaption(s) ==
    /\ Len(s) >= Len(S_table)
    /\ ToLower(SubSeq(s, 1, Len(S_table))) = S_table
    /\ WsRun(s, Len(S_table) + 1) >= 1
    /\ DigitRun(s, Len(S_table) + 1 + WsRun(s, Len(S_table) + 1)) >= 1

RECURSIVE SplitMultiSpace(_, _, _, _)
\* multi_space_re.split(s), with multi_space_re = [\t]|\s{2,}: the pieces of s
\* between the delimiters, the empty ones included.  At a tab the first
\* alternative matches that tab alone; at another whitespace character the
\* second one matches the whole whitespace run when it has 2 or more characters.
SplitMultiSpace(s, i, cur, acc) ==
    IF i > Len(s) THEN Append(acc, cur)
    ELSE IF s[i] = "\t" THEN SplitMultiSpace(s, i + 1, <<>>, Append(acc, cur))
    ELSE IF IsWs(s[i]) /\ WsRun(s, i) >= 2
         THEN SplitMultiSpace(s, i + WsRun(s, i), <<>>, Append(acc, cur))
    ELSE SplitMultiSpace(s, i + 1, Append(cur, s[i]), acc)

\* .split(row).filter(|s| !s.is_empty())
RowParts(row) ==
    LET NonEmpty(x) == x # <<>>
    IN  SelectSeq(SplitMultiSpace(row, 1, <<>>, <<>>), NonEmpty)

\* .split(row).filter(|s| !s.is_empty()).map(|s| s.trim().to_string())
SplitCells(row) ==
    LET parts == RowParts(row) IN [k \in 1..Len(parts) |-> Trim(parts[k])]

\* TableParser::looks_like_table_row
LooksLikeTableRow(line) ==
    IF ByteLen(line) < 5 THEN FALSE ELSE Len(RowParts(line)) >= 2

MutParseRowsAnyHeader(raw_rows) ==
    IF raw_rows = <<>> THEN None
    ELSE LET rows == [k \in 1..(Len(raw_rows) - 1) |-> SplitCells(raw_rows[k + 1])]
         IN  IF rows = <<>> THEN None
             ELSE Some([headers |-> SplitCells(raw_rows[1]), rows |-> rows])

MutParseRowsPadsRows(raw_rows) ==
    IF raw_rows = <<>> THEN None
    ELSE LET headers == SplitCells(raw_rows[1])
             Cells(k) == SplitCells(raw_rows[k + 1])
             rows == [k \in 1..(Len(raw_rows) - 1) |->
                        [c \in 1..Len(headers) |->
                           IF c <= Len(Cells(k)) THEN Cells(k)[c] ELSE <<>>]]
         IN  IF Len(headers) < 2 \/ rows = <<>> THEN None
             ELSE Some([headers |-> headers, rows |-> rows])

\* TableParser::parse_rows: None, or Some of the headers and the data rows.
ParseRows(raw_rows) ==
    IF raw_rows = <<>> THEN None
    ELSE LET headers == SplitCells(raw_rows[1])
             rows == [k \in 1..(Len(raw_rows) - 1) |-> SplitCells(raw_rows[k + 1])]
         IN  IF Len(headers) < 2 THEN None
             ELSE IF rows = <<>> THEN None
             ELSE Some([headers |-> headers, rows |-> rows])

RECURSIVE SkipBlankLines(_, _)
\* while i < lines.len() && lines[i].trim().is_empty() { i += 1 }
SkipBlankLines(lines, i) ==
    IF i <= Len(lines) /\ Trim(lines[i]) = <<>> THEN SkipBlankLines(lines, i + 1)
    ELSE i

RECURSIVE MutCollectCaptionedRowsStopsAtBlank(_, _, _, _)
MutCollectCaptionedRowsStopsAtBlank(lines, i, blank_count, raw_rows) ==
    IF i > Len(lines) THEN [i |-> i, raw_rows |-> raw_rows]
    ELSE LET row == Trim(lines[i])
         IN  IF row = <<>> THEN [i |-> i, raw_rows |-> raw_rows]
             ELSE IF IsTableCaption(row) THEN [i |-> i, raw_rows |-> raw_rows]
             ELSE MutCollectCaptionedRowsStopsAtBlank(lines, i + 1, 0,
                                                      Append(raw_rows, row))

RECURSIVE CollectCaptionedRows(_, _, _, _)
\* The row-collecting loop after a caption: the line index it stops at and
\* the raw rows it collected.
CollectCaptionedRows(lines, i, blank_count, raw_rows) ==
    IF i > Len(lines) THEN [i |-> i, raw_rows |-> raw_rows]
    ELSE LET row == Trim(lines[i])
         IN  IF row = <<>>
             THEN IF blank_count + 1 > 1 THEN [i |-> i, raw_rows |-> raw_rows]
                  ELSE CollectCaptionedRows(lines, i + 1, blank_count + 1, raw_rows)
             ELSE IF IsTableCaption(row) THEN [i |-> i, raw_rows |-> raw_rows]
             ELSE CollectCaptionedRows(lines, i + 1, 0, Append(raw_rows, row))

RECURSIVE CollectBlockRows(_, _, _, _)
\* The row-collecting loop of an uncaptioned column block.
CollectBlockRows(lines, i, blank_count, raw_rows) ==
    IF i > Len(lines) THEN [i |-> i, raw_rows |-> raw_rows]
    ELSE LET row == Trim(lines[i])
         IN  IF row = <<>>
             THEN IF blank_count + 1 > 1 THEN [i |-> i, raw_rows |-> raw_rows]
                  ELSE CollectBlockRows(lines, i + 1, blank_count + 1, raw_rows)
             ELSE IF ~LooksLikeTableRow(row) THEN [i |-> i, raw_rows |-> raw_rows]
             ELSE CollectBlockRows(lines, i + 1, 0, Append(raw_rows, row))

\* if raw_rows.len() >= min_rows { if let Some(..) = parse_rows(..) { tables.push(..) } }
PushTable(tables, caption, raw_rows, min_rows) ==
    IF Len(raw_rows) >= min_rows /\ ParseRows(raw_rows) # None
    THEN Append(tables, [caption |-> caption,
                         headers |-> ParseRows(raw_rows)[1].headers,
                         rows |-> ParseRows(raw_rows)[1].rows])
    ELSE tables

CaptionedMinRows == 2
UncaptionedMinRows == 3

\* The locals of TableParser::extract before its loop.
TabStart(full_text) ==
    [pc |-> "loop", lines |-> Lines(full_text), i |-> 1, tables |-> <<>>,
     branch |-> "none", raw_rows |-> <<>>]

\* One iteration of the outer loop at a "Table N" caption line.
TabCaptionStep(st, trimmed) ==
    LET c == CollectCaptionedRows(st.lines, SkipBlankLines(st.lines, st.i + 1),
                                  0, <<>>)
    IN  [st EXCEPT !.i = c.i,
                   !.tables = PushTable(st.tables, Some(trimmed), c.raw_rows,
                                        CaptionedMinRows),
                   !.branch = "captioned",
                   !.raw_rows = c.raw_rows]

MutTabBlockStepTwoRows(st) ==
    LET c == CollectBlockRows(st.lines, st.i, 0, <<>>)
    IN  [st EXCEPT !.i = IF c.i = st.i THEN st.i + 1 ELSE c.i,
                   !.tables = PushTable(st.tables, None, c.raw_rows,
                                        CaptionedMinRows),
                   !.branch = "uncaptioned",
                   !.raw_rows = c.raw_rows]

\* One iteration of the outer loop at a line that looks like a table row.
TabBlockStep(st) ==
    LET c == CollectBlockRows(st.lines, st.i, 0, <<>>)
    IN  [st EXCEPT !.i = IF c.i = st.i THEN st.i + 1 ELSE c.i,
                   !.tables = PushTable(st.tables, None, c.raw_rows,
                                        UncaptionedMinRows),
                   !.branch = "uncaptioned",
                   !.raw_rows = c.raw_rows]

MutTabSkipStepStays(st) == [st EXCEPT !.branch = "none", !.raw_rows = <<>>]

\* One iteration of the outer loop at any other line.
TabSkipStep(st) ==
    [st EXCEPT !.i = st.i + 1, !.branch = "none", !.raw_rows = <<>>]

TabStep(st) ==
    IF st.i > Len(st.lines) THEN [st EXCEPT !.pc = "done"]
    ELSE LET trimmed == Trim(st.lines[st.i])
         IN  IF IsTableCaption(trimmed) THEN TabCaptionStep(st, trimmed)
             ELSE IF LooksLikeTableRow(trimmed) THEN TabBlockStep(st)
             ELSE TabSkipStep(st)

RECURSIVE TabRun(_)
TabRun(st) == IF st.pc = "done" THEN st ELSE TabRun(TabStep(st))

\* The tables TableParser::extract returns.
TableExtract(full_text) == TabRun(TabStart(full_text)).tables

---------------------------------------------------------------------------
(* The table detector as a state machine, one action per outer iteration *)

\* Scenario 4 of the design's testable properties:
\*   "Table 1: Results\nModel  Accuracy\nA  0.91\nB  0.95"
TabScenarioText ==
    <<"T","a","b","l","e"," ","1",":"," ","R","e","s","u","l","t","s","\n",
      "M","o","d","e","l"," "," ","A","c","c","u","r","a","c","y","\n",
      "A"," "," ","0",".","9","1","\n",
      "B"," "," ","0",".","9","5">>

L_Table1 == <<"T","a","b","l","e"," ","1">>                 \* "Table 1"
L_Table2x == <<"t","a","b","l","e"," ","2"," "," ","x">>    \* "table 2  x"
L_ab_cd == <<"a","b"," "," ","c","d">>                      \* "ab  cd"
L_a_b_c == <<" ","a"," "," ","b"," "," ","c">>              \* " a  b  c"
L_tabbed == <<"a","\t"," ","b"," ","c">>                    \* "a\t b c"
L_abcde == <<"a","b","c","d","e">>                          \* "abcde"
L_x_y == <<"x"," "," ","y">>                                \* "x  y"
L_blank == <<>>                                              \* ""

\* The lines the enumerated texts are made of.
TabLineVocabulary ==
    {L_Table1, L_Table2x, L_ab_cd, L_a_b_c, L_tabbed, L_abcde, L_x_y, L_blank}

MaxTabLines == 4

\* A caption, two blank lines, two rows with a blank line between them, two
\* blank lines and a further row.
TabGapText ==
    Join(<<L_Table1, L_blank, L_blank, L_ab_cd, L_blank, L_x_y, L_blank, L_blank,
           L_tabbed>>, <<"\n">>)

\* Longer texts: a caption and a block separated by two blank lines, a block
\* with one-blank gaps, a caption followed by blank lines.
TabLongTexts ==
    { Join(<<L_Table1, L_ab_cd, L_x_y, L_blank, L_blank, L_ab_cd, L_a_b_c, L_tabbed>>, <<"\n">>),
      Join(<<L_ab_cd, L_blank, L_a_b_c, L_blank, L_tabbed, L_abcde>>, <<"\n">>),
      Join(<<L_Table1, L_blank, L_blank, L_abcde, L_blank, L_x_y, L_Table2x, L_ab_cd>>, <<"\n">>) }

TabTexts ==
    {TabScenarioText, TabGapText} \cup TabLongTexts
      \cup {Join(ls, <<"\n">>) : ls \in SeqUpTo(TabLineVocabulary, MaxTabLines)}

TabCurrentLine == Trim(tab.lines[tab.i])

TabInLoop == tab.pc = "loop" /\ tab.i <= Len(tab.lines)

TabInit ==
    /\ tab \in {TabStart(t) : t \in TabTexts}
    /\ seg = Idle /\ fex = Idle /\ img = Idle /\ pipe = Idle /\ walk = Idle /\ par = Idle /\ refs = Idle /\ crawl = Idle /\ search = Idle /\ trans = Idle

TabCaption ==
    /\ TabInLoop
    /\ IsTableCaption(TabCurrentLine)
    /\ tab' = TabStep(tab)
    /\ UNCHANGED <<seg, fex, img, pipe, walk, par, refs, crawl, search, trans>>

TabBlock ==
    /\ TabInLoop
    /\ ~IsTableCaption(TabCurrentLine)
    /\ LooksLikeTableRow(TabCurrentLine)
    /\ tab' = TabStep(tab)
    /\ UNCHANGED <<seg, fex, img, pipe, walk, par, refs, crawl, search, trans>>

TabSkip ==
    /\ TabInLoop
    /\ ~IsTableCaption(TabCurrentLine)
    /\ ~LooksLikeTableRow(TabCurrentLine)
    /\ tab' = TabStep(tab)
    /\ UNCHANGED <<seg, fex, img, pipe, walk, par, refs, crawl, search, trans>>

TabFinish ==
    /\ tab.pc = "loop"
    /\ tab.i > Len(tab.lines)
    /\ tab' = TabStep(tab)
    /\ UNCHANGED <<seg, fex, img, pipe, walk, par, refs, crawl, search, trans>>

TabNext == TabCaption \/ TabBlock \/ TabSkip \/ TabFinish

SpecTable == TabInit /\ [][TabNext]_vars

\* extract is a sequential computation: its loop takes the next iteration.
\* This is weak fairness of TabNext, whose enabling condition is written out:
\* a step of TabNext is possible exactly while pc is "loop".
SpecTableLive ==
    SpecTable /\ ([]<>(tab.pc # "loop") \/ []<><<TabNext>>_vars)

---------------------------------------------------------------------------
(* Claims about the table detector *)

\* C6: every Table returned by TableParser::extract, captioned or not, has at
\* least 2 header cells and at least 1 data row.
C6_TablesHaveHeadersAndRows ==
    \A k \in 1..Len(tab.tables) :
        /\ Len(tab.tables[k].headers) >= 2
        /\ Len(tab.tables[k].rows) >= 1

\* A finished run that returned a captioned and an uncaptioned table.
C6_Witness ==
    /\ tab.pc = "done"
    /\ \E k \in 1..Len(tab.tables) : tab.tables[k].caption # None
    /\ \E k \in 1..Len(tab.tables) : tab.tables[k].caption = None

TabScenarioTables ==
    << [caption |-> Some(<<"T","a","b","l","e"," ","1",":"," ","R","e","s","u","l","t","s">>),
        headers |-> << <<"M","o","d","e","l">>, <<"A","c","c","u","r","a","c","y">> >>,
        rows |-> << << <<"A">>, <<"0",".","9","1">> >>,
                    << <<"B">>, <<"0",".","9","5">> >> >>] >>

\* What an outer iteration that collected raw_rows for a candidate with the
\* given caption must have done to the tables.
TabCandidateOutcome(before, after, caption, raw_rows, min_rows) ==
    IF Len(raw_rows) >= min_rows /\ Len(SplitCells(raw_rows[1])) >= 2
    THEN /\ Len(after) = Len(before) + 1
         /\ SubSeq(after, 1, Len(before)) = before
         /\ after[Len(after)].caption = caption
         /\ after[Len(after)].headers = SplitCells(raw_rows[1])
         /\ Len(after[Len(after)].rows) = Len(raw_rows) - 1
         /\ \A k \in 1..(Len(raw_rows) - 1) :
                after[Len(after)].rows[k] = SplitCells(raw_rows[k + 1])
    ELSE after = before

\* C10: for every table candidate the first raw row becomes the headers and each
\* remaining raw row becomes exactly one data row, in order and with its own
\* number of cells (never padded or truncated to the header length); a candidate
\* whose first row yields fewer than 2 cells adds no table.  The text of scenario
\* 4 yields exactly its one Table.
C10_FirstRowHeadersRestRagged ==
    [][ /\ TabCaption =>
            TabCandidateOutcome(tab.tables, tab'.tables, Some(TabCurrentLine),
                                tab'.raw_rows, CaptionedMinRows)
        /\ TabBlock =>
            TabCandidateOutcome(tab.tables, tab'.tables, None,
                                tab'.raw_rows, UncaptionedMinRows)
        /\ (tab'.pc = "done" /\ tab'.lines = Lines(TabScenarioText)) =>
            tab'.tables = TabScenarioTables ]_vars

\* A captioned table with a data row longer than the header row was emitted,
\* and so was a candidate whose first row has a single cell discarded.
C10_Witness ==
    /\ tab.branch = "captioned"
    /\ Len(tab.raw_rows) >= 2
    /\ tab.tables # <<>>
    /\ tab.tables[Len(tab.tables)].caption # None
    /\ \E k \in 1..Len(tab.tables[Len(tab.tables)].rows) :
           Len(tab.tables[Len(tab.tables)].rows[k])
             > Len(tab.tables[Len(tab.tables)].headers)

\* A candidate with enough raw rows was discarded for its one-cell first row.
C10_DiscardReached ==
    /\ tab.branch = "captioned"
    /\ Len(tab.raw_rows) >= 2
    /\ Len(SplitCells(tab.raw_rows[1])) < 2
    /\ tab.tables = <<>>

\* The scenario text has been processed.
C10_ScenarioReached ==
    tab.pc = "done" /\ tab.lines = Lines(TabScenarioText)

---------------------------------------------------------------------------
(* FormulaExtractor  (src/src/parser/formula_extractor.rs)                 *)
(*                                                                         *)
(* A position p in 0..Len(t) lies between the characters t[p] and t[p+1].  *)
(* A match is a pair of positions; the Rust code sees the byte offsets of  *)
(* these positions (ByteOff).  The regex crate finds the leftmost match    *)
(* and, at that start, the one a backtracking engine finds first.          *)

\* The characters of the pattern classes.
EquationOps == {"=", "<", ">", "U+2261", "U+2248", ChLe, "U+2265"}
GreekOps == {"=", "+", "-", "<", ">", ChLe, "U+2265", "U+2248"}
MathSymbols == {ChSum, ChLe, "U+222B", "U+220F", "U+2202", "U+2207", "U+221E",
                "U+2260", "U+2261", "U+2248", "U+2265", "U+2208", "U+2200"}
GreekLetters == {ChTheta, "U+03B1", "U+03B2", "U+03BB", "U+03BC", "U+03C3", "U+03A3"}

\* Characters that a match of the passes subscript_expr, math_func,
\* norm_or_loss and latex_cmd must contain: a digit that follows a letter, an
\* opening bracket or the letters "arg", a bar or an opening parenthesis, a
\* backslash.
FexInDomain(t) ==
    /\ \A i \in 1..Len(t) : t[i] \notin {"(", "{", "|", "\\", "U+27E8", "U+2016"}
    /\ \A i \in 1..(Len(t) - 1) : ~(t[i] \in AsciiLetter /\ t[i + 1] \in Digit)
    /\ \A i \in 1..(Len(t) - 2) :
          ToLower(SubSeq(t, i, i + 2)) # <<"a", "r", "g">>

\* The byte offset of position p of t.
ByteOff(t, p) == ByteLen(SubSeq(t, 1, p))

\* The byte offsets of t that are character boundaries.
CharBoundaries(t) == {ByteOff(t, p) : p \in 0..Len(t)}

\* str::is_char_boundary
IsCharBoundary(t, b) == b \in CharBoundaries(t)

\* The position of the end of the line that holds position p.
LineEnd(t, p) ==
    LET nl == {q \in (p + 1)..Len(t) : t[q] = "\n"}
    IN  IF nl = {} THEN Len(t) ELSE SetMin(nl) - 1

\* (?m)^ at position p
IsLineStart(t, p) == p = 0 \/ t[p] = "\n"

NoMatch == -1

\* Pass "equation":  (?m)^[^\n]{0,200}[a-zA-Z]\s*[=...]\s*[^\n]{3,}$
\* The end of the match that starts at position s, or NoMatch.  The prefix is
\* greedy: the letter is the last one of the line (within 200 characters) that
\* the rest can follow.  The first \s* must reach the operator; the second is
\* greedy, and like the first may run over line ends; the tail runs to the end
\* of its line.
EquationEnd(t, s) ==
    LET OpAfter(k) == s + k + 1 + WsRun(t, s + k + 2) + 1
        TailStarts(k) ==
            {j \in 0..WsRun(t, OpAfter(k) + 1) :
                LineEnd(t, OpAfter(k) + j) - (OpAfter(k) + j) >= 3}
        ks == {k \in 0..MinOf(200, LineEnd(t, s) - s) :
                 /\ s + k + 1 <= Len(t)
                 /\ t[s + k + 1] \in AsciiLetter
                 /\ OpAfter(k) <= Len(t)
                 /\ t[OpAfter(k)] \in EquationOps
                 /\ TailStarts(k) # {}}
    IN  IF ~IsLineStart(t, s) \/ ks = {} THEN NoMatch
        ELSE LineEnd(t, OpAfter(SetMax(ks)) + SetMax(TailStarts(SetMax(ks))))

\* Pass "math_symbol":  [...]{1}[^\n]{2,100}
MathSymbolEnd(t, s) ==
    LET r == LineEnd(t, s + 1) - (s + 1)
    IN  IF s + 1 <= Len(t) /\ t[s + 1] \in MathSymbols /\ r >= 2
        THEN s + 1 + MinOf(r, 100)
        ELSE NoMatch

\* Pass "greek_expr":  [^\n]{0,50}[greek][^\n]{0,10}[=+\-<>...][^\n]{2,}
\* All of a match lies in one line and its tail runs to the end of that line.
GreekExprEnd(t, s) ==
    LET le == LineEnd(t, s)
    IN  IF \E g \in (s + 1)..MinOf(s + 51, le) :
              /\ t[g] \in GreekLetters
              /\ \E o \in (g + 1)..MinOf(g + 11, le) :
                    t[o] \in GreekOps /\ le - o >= 2
        THEN le
        ELSE NoMatch

\* Pass "inline_latex":  \$[^\$]{2,}?\$
InlineLatexEnd(t, s) ==
    LET close == {c \in (s + 2)..Len(t) : t[c] = "$"}
    IN  IF s + 1 <= Len(t) /\ t[s + 1] = "$" /\ close # {} /\ SetMin(close) >= s + 4
        THEN SetMin(close)
        ELSE NoMatch

\* Pass "display_latex":  \$\$[\s\S]+?\$\$
DisplayLatexEnd(t, s) ==
    LET close == {e \in (s + 5)..Len(t) : t[e - 1] = "$" /\ t[e] = "$"}
    IN  IF s + 2 <= Len(t) /\ t[s + 1] = "$" /\ t[s + 2] = "$" /\ close # {}
        THEN SetMin(close)
        ELSE NoMatch

\* The patterns vector of FormulaExtractor::new, in its order.
PatternKinds ==
    <<"equation", "math_symbol", "subscript_expr", "greek_expr", "math_func",
      "norm_or_loss", "latex_cmd", "inline_latex", "display_latex">>

\* The end of the match of pattern k that starts at position s of a text in
\* the domain, or NoMatch.
PatternEnd(k, t, s) ==
    CASE PatternKinds[k] = "equation" -> EquationEnd(t, s)
      [] PatternKinds[k] = "math_symbol" -> MathSymbolEnd(t, s)
      [] PatternKinds[k] = "greek_expr" -> GreekExprEnd(t, s)
      [] PatternKinds[k] = "inline_latex" -> InlineLatexEnd(t, s)
      [] PatternKinds[k] = "display_latex" -> DisplayLatexEnd(t, s)
      [] OTHER -> NoMatch

\* The next item of pattern.find_iter(full_text) when the search resumes at
\* position from: the leftmost match, or None.
FindFrom(k, t, from) ==
    LET starts == {s \in from..(Len(t) - 1) : PatternEnd(k, t, s) # NoMatch}
    IN  IF starts = {} THEN None
        ELSE Some([start |-> SetMin(starts), end |-> PatternEnd(k, t, SetMin(starts))])

ContextRadius == 50
MinRawLen == 4
MaxRawLen == 500
DebugPreviewLen == 80

\* str::floor_char_boundary
FloorCharBoundary(t, b) ==
    IF b >= ByteLen(t) THEN ByteLen(t)
    ELSE SetMax({c \in CharBoundaries(t) : c <= b})

\* str::ceil_char_boundary
CeilCharBoundary(t, b) ==
    IF b >= ByteLen(t) THEN ByteLen(t)
    ELSE SetMin({c \in CharBoundaries(t) : c >= b})

\* &t[a..b]: the slice between two byte offsets, or None where Rust panics
\* (an offset out of range or inside a character).
ByteSlice(t, a, b) ==
    IF a <= b /\ b <= ByteLen(t) /\ IsCharBoundary(t, a) /\ IsCharBoundary(t, b)
    THEN Some(SubSeq(t, (CHOOSE p \in 0..Len(t) : ByteOff(t, p) = a) + 1,
                        CHOOSE p \in 0..Len(t) : ByteOff(t, p) = b))
    ELSE None

MutContextBoundsUnsnapped(t, mat_start, mat_end) ==
    [start |-> IF mat_start >= ContextRadius THEN mat_start - ContextRadius ELSE 0,
     end |-> MinOf(mat_end + ContextRadius, ByteLen(t))]

\* The byte offsets start and end of the context window of a match.
ContextBounds(t, mat_start, mat_end) ==
    [start |-> FloorCharBoundary(t,
                 IF mat_start >= ContextRadius THEN mat_start - ContextRadius ELSE 0),
     end |-> CeilCharBoundary(t, MinOf(mat_end + ContextRadius, ByteLen(t)))]

MutIsSeenNever(seen, raw) == FALSE

\* seen.contains(&raw)
IsSeen(seen, raw) == raw \in seen

\* The next item of the find_iter of pattern number pass, resumed at from; None
\* past the end of the patterns vector.
FexFind(pass, t, from) ==
    IF pass > Len(PatternKinds) THEN None ELSE FindFrom(pass, t, from)

\* The locals of FormulaExtractor::extract before its loops.  pass numbers the
\* pattern of the outer loop (10: past the last one); mat is the item the inner
\* loop's iterator yields next.
FexStart(full_text, log_debug) ==
    [pc |-> "loop", text |-> full_text, log_debug |-> log_debug,
     pass |-> 1, mat |-> FexFind(1, full_text, 0), formulas |-> <<>>, seen |-> {},
     last |-> "none", mat_start |-> 0, mat_end |-> 0, start |-> 0, end |-> 0]

\* The match the inner loop is at, or None.
FexMatch(st) == st.mat

FexRaw(st) ==
    LET mat == FexMatch(st)[1] IN Trim(SubSeq(st.text, mat.start + 1, mat.end))

\* One iteration of the inner loop for the match mat.
FexMatchStep(st, mat) ==
    LET raw == Trim(SubSeq(st.text, mat.start + 1, mat.end))
        mat_start == ByteOff(st.text, mat.start)
        mat_end == ByteOff(st.text, mat.end)
        b == ContextBounds(st.text, mat_start, mat_end)
        slice == ByteSlice(st.text, b.start, b.end)
        preview == ByteSlice(raw, 0, MinOf(ByteLen(raw), DebugPreviewLen))
        at == [st EXCEPT !.mat = FexFind(st.pass, st.text, mat.end),
                         !.mat_start = mat_start, !.mat_end = mat_end]
    IN  IF IsSeen(st.seen, raw) THEN [at EXCEPT !.last = "seen"]
        ELSE IF ByteLen(raw) < MinRawLen \/ ByteLen(raw) > MaxRawLen
             THEN [at EXCEPT !.last = "length"]
        ELSE IF slice = None
             THEN [at EXCEPT !.pc = "panic", !.last = "context",
                             !.start = b.start, !.end = b.end]
        ELSE IF st.log_debug /\ preview = None
             THEN [at EXCEPT !.pc = "panic", !.last = "preview",
                             !.start = b.start, !.end = b.end]
        ELSE [at EXCEPT !.last = "pushed", !.start = b.start, !.end = b.end,
                        !.seen = st.seen \cup {raw},
                        !.formulas = Append(st.formulas,
                                            [raw |-> raw, context |-> Trim(slice[1])])]

\* find_iter of the current pattern is exhausted: the outer loop moves on.
FexNextPassStep(st) ==
    [st EXCEPT !.pass = st.pass + 1, !.mat = FexFind(st.pass + 1, st.text, 0),
               !.last = "none"]

FexStep(st) ==
    IF st.pc # "loop" THEN st
    ELSE IF st.pass > Len(PatternKinds) THEN [st EXCEPT !.pc = "done"]
    ELSE IF FexMatch(st) = None THEN FexNextPassStep(st)
    ELSE FexMatchStep(st, FexMatch(st)[1])

RECURSIVE FexRun(_)
FexRun(st) == IF st.pc # "loop" THEN st ELSE FexRun(FexStep(st))

\* seen is a HashSet, whose RandomState gets fresh keys in every call:
\* random_state stands for them.
RandomStates == {"k1", "k2"}

\* The order a HashSet with the keys random_state iterates the formulas in.
HashOrder(formulas, random_state) ==
    IF random_state = "k1" THEN formulas
    ELSE [k \in 1..Len(formulas) |-> formulas[Len(formulas) + 1 - k]]

MutFormulasReturnedInHashOrder(st, random_state) ==
    HashOrder(st.formulas, random_state)

\* The Vec that is returned: in the order of the pushes, seen is only asked
\* whether it contains a string.
FormulasReturned(st, random_state) == st.formulas

\* What FormulaExtractor::extract returns, or None when it panics.
FormulaExtract(full_text, log_debug, random_state) ==
    LET st == FexRun(FexStart(full_text, log_debug))
    IN  IF st.pc = "done" THEN Some(FormulasReturned(st, random_state)) ELSE None

---------------------------------------------------------------------------
(* The formula detector as a state machine, one action per match of find_iter *)

F_x_eq == <<"x", "=">>                         \* "x="
F_abc == <<"a", "b", "c">>                     \* "abc"
F_theta == <<ChTheta>>
F_sum_ab == <<ChSum, "a", "b">>
F_nl == <<"\n">>
F_sp == <<" ">>
F_dollar == <<"$">>
F_pad == Repeat(ChCJK, 17)                     \* 51 bytes of 3-byte characters

\* The fragments the enumerated texts are made of.
FexFragments == <<F_x_eq, F_abc, F_theta, F_sum_ab, F_nl, F_sp, F_dollar, F_pad>>

MaxFexFragments == 3

\* Longer texts: a match between two pads, a display formula, a line repeated
\* after a pad, two lines of more than 80 bytes (byte 80 of the second is inside
\* a character), a short match found twice, a line two passes match repeated
\* after a pad.
FexLongTexts ==
    { Concat(<<F_pad, F_nl, F_theta, F_x_eq, F_abc, F_nl, F_pad>>),
      Concat(<<F_theta, F_x_eq, F_abc, F_nl, F_pad, F_nl, F_theta, F_x_eq, F_abc>>),
      Concat(<<F_dollar, F_dollar, F_abc, F_dollar, F_dollar>>),
      Concat(<<F_sum_ab, F_nl, F_pad, F_sp, F_sum_ab, F_nl, F_sum_ab>>),
      Concat(<<F_pad, <<ChEAcute>>, F_pad, F_x_eq, F_abc>>),
      Concat(<<F_pad, <<ChEAcute, ChEAcute>>, F_pad, F_x_eq, F_abc>>),
      Concat(<<F_x_eq, F_sp, F_sp, F_sp, F_nl, <<"a", "b">>, F_nl,
               F_x_eq, F_sp, F_sp, F_sp>>) }

FexTexts ==
    FexLongTexts
      \cup {Concat([k \in 1..Len(fs) |-> FexFragments[fs[k]]]) :
              fs \in SeqUpTo(1..Len(FexFragments), MaxFexFragments)}

FexInit ==
    /\ fex \in {FexStart(t, d) : t \in {x \in FexTexts : FexInDomain(x)},
                                 d \in BOOLEAN}
    /\ seg = Idle /\ tab = Idle /\ img = Idle /\ pipe = Idle /\ walk = Idle /\ par = Idle /\ refs = Idle /\ crawl = Idle /\ search = Idle /\ trans = Idle

FexAtMatch == fex.pc = "loop" /\ FexMatch(fex) # None

\* if seen.contains(&raw) { continue; }
FexSkipSeen ==
    /\ FexAtMatch
    /\ IsSeen(fex.seen, FexRaw(fex))
    /\ fex' = FexStep(fex)
    /\ UNCHANGED <<seg, tab, img, pipe, walk, par, refs, crawl, search, trans>>

\* if raw.len() < 4 || raw.len() > 500 { continue; }
FexSkipLength ==
    /\ FexAtMatch
    /\ ~IsSeen(fex.seen, FexRaw(fex))
    /\ ByteLen(FexRaw(fex)) < MinRawLen \/ ByteLen(FexRaw(fex)) > MaxRawLen
    /\ fex' = FexStep(fex)
    /\ UNCHANGED <<seg, tab, img, pipe, walk, par, refs, crawl, search, trans>>

\* The rest of the loop body: the context, the debug line, the push.
FexPush ==
    /\ FexAtMatch
    /\ ~IsSeen(fex.seen, FexRaw(fex))
    /\ ~(ByteLen(FexRaw(fex)) < MinRawLen \/ ByteLen(FexRaw(fex)) > MaxRawLen)
    /\ fex' = FexStep(fex)
    /\ UNCHANGED <<seg, tab, img, pipe, walk, par, refs, crawl, search, trans>>

FexNextPass ==
    /\ fex.pc = "loop"
    /\ fex.pass <= Len(PatternKinds)
    /\ FexMatch(fex) = None
    /\ fex' = FexStep(fex)
    /\ UNCHANGED <<seg, tab, img, pipe, walk, par, refs, crawl, search, trans>>

FexFinish ==
    /\ fex.pc = "loop"
    /\ fex.pass > Len(PatternKinds)
    /\ fex' = FexStep(fex)
    /\ UNCHANGED <<seg, tab, img, pipe, walk, par, refs, crawl, search, trans>>

FexNext == FexSkipSeen \/ FexSkipLength \/ FexPush \/ FexNextPass \/ FexFinish

SpecFormula == FexInit /\ [][FexNext]_vars

---------------------------------------------------------------------------
(* Claims about the formula detector *)

\* Every item of the find_iter of pattern number pass over t, from position
\* from on, in its order.
RECURSIVE FexMatchesFrom(_, _, _)
FexMatchesFrom(pass, t, from) ==
    LET m == FexFind(pass, t, from)
    IN  IF m = None THEN <<>>
        ELSE <<[pass |-> pass, start |-> m[1].start, end |-> m[1].end,
                raw |-> Trim(SubSeq(t, m[1].start + 1, m[1].end))]>>
               \o FexMatchesFrom(pass, t, m[1].end)

\* Every match of every pass over t, in the fixed pass order.
FexOccurrences(t) ==
    Concat([k \in 1..Len(PatternKinds) |-> FexMatchesFrom(k, t, 0)])

\* The context the loop body computes for the occurrence o of t.
FexContextOf(t, o) ==
    LET b == ContextBounds(t, ByteOff(t, o.start), ByteOff(t, o.end))
    IN  Trim(ByteSlice(t, b.start, b.end)[1])

FexCount(formulas, raw) ==
    Cardinality({k \in 1..Len(formulas) : formulas[k].raw = raw})

FexLengthOk(raw) == ByteLen(raw) >= MinRawLen /\ ByteLen(raw) <= MaxRawLen

FexMatchedTwice(occ, raw) ==
    \E p, q \in 1..Len(occ) : p < q /\ occ[p].raw = raw /\ occ[q].raw = raw

\* C4, as stated: in the result of one extract call no two Formulas have the
\* same raw string, and a trimmed substring that is matched by two different
\* passes, or several times by one pass, appears exactly once in the result.
C4_MatchedTwiceAppearsExactlyOnce ==
    fex.pc = "done" =>
      LET occ == FexOccurrences(fex.text)
      IN  /\ \A i, j \in 1..Len(fex.formulas) :
                fex.formulas[i].raw = fex.formulas[j].raw => i = j
          /\ \A p \in 1..Len(occ) :
                FexMatchedTwice(occ, occ[p].raw)
                  => FexCount(fex.formulas, occ[p].raw) = 1

\* C4, amended: in the result of one extract call no two Formulas have the same
\* raw string; a trimmed substring that is matched by two different passes, or
\* several times by one pass, appears at most once, and exactly once when its
\* byte length is within 4..500 (never otherwise); the Formula is contributed
\* by the first occurrence in the fixed pass order, whose context it carries,
\* and the Formulas are in the order of these first occurrences.
C4_NoTwoFormulasShareRaw ==
    fex.pc = "done" =>
      LET occ == FexOccurrences(fex.text)
          first(raw) == SetMin({p \in 1..Len(occ) : occ[p].raw = raw})
      IN  /\ \A i, j \in 1..Len(fex.formulas) :
                fex.formulas[i].raw = fex.formulas[j].raw => i = j
          /\ \A p \in 1..Len(occ) :
                FexCount(fex.formulas, occ[p].raw)
                  = IF FexLengthOk(occ[p].raw) THEN 1 ELSE 0
          /\ \A i \in 1..Len(fex.formulas) :
                /\ \E p \in 1..Len(occ) : occ[p].raw = fex.formulas[i].raw
                /\ fex.formulas[i].context
                     = FexContextOf(fex.text, occ[first(fex.formulas[i].raw)])
          /\ \A i, j \in 1..Len(fex.formulas) :
                i < j => first(fex.formulas[i].raw) < first(fex.formulas[j].raw)

\* A finished call over a text in which one raw string is matched by two
\* different passes, and one is matched again with another context.
C4_Witness ==
    /\ fex.pc = "done"
    /\ LET occ == FexOccurrences(fex.text)
       IN  /\ \E p, q \in 1..Len(occ) :
                 /\ p < q /\ occ[p].raw = occ[q].raw /\ occ[p].pass # occ[q].pass
                 /\ FexCount(fex.formulas, occ[p].raw) = 1
           /\ \E p, q \in 1..Len(occ) :
                 /\ p < q /\ occ[p].raw = occ[q].raw
                 /\ FexCount(fex.formulas, occ[p].raw) = 1
                 /\ FexContextOf(fex.text, occ[p]) # FexContextOf(fex.text, occ[q])

\* The number of characters of t between the byte offsets a <= b, both on
\* character boundaries.
CharsBetween(t, a, b) ==
    Cardinality({p \in 1..Len(t) : ByteOff(t, p - 1) >= a /\ ByteOff(t, p) <= b})

\* s is a contiguous run of characters of t.
IsInfix(s, t) ==
    \E a \in 0..(Len(t) - Len(s)) : SubSeq(t, a + 1, a + Len(s)) = s

---------------------------------------------------------------------------
(* The image extractor: src/parser/image_analyzer.rs *)

\* A u32 is written as its four base-256 digits, lowest first, so that every
\* 32-bit value and every product of two of them can be computed.
Byte == 256

\* The u32 of an integer 0 <= x < 2^31.
U32FromInt(x) ==
    <<x % Byte, (x \div Byte) % Byte, (x \div (Byte * Byte)) % Byte,
      x \div (Byte * Byte * Byte)>>

\* x as u32 for an i64 x with -2^31 <= x < 2^31: two's complement.
I64AsU32(x) ==
    IF x >= 0 THEN U32FromInt(x)
    ELSE LET low == U32FromInt((2147483647 + x) + 1)
         IN  <<low[1], low[2], low[3], low[4] + 128>>

\* a as usize fits the integers of the model: a < 2^31.
U32Fits(a) == a[4] < 128

U32Int(a) == a[1] + Byte * a[2] + Byte * Byte * a[3] + Byte * Byte * Byte * a[4]

\* a < x, for an integer 0 <= x < 2^31.
U32Below(a, x) == U32Fits(a) /\ U32Int(a) < x

\* a * b in u32, by long multiplication: whether the product overflows, and its
\* low 32 bits.  c1..c4 are the low columns, t1..t4 the columns with the carry
\* of the ones below; a column above the fourth that is not 0 is an overflow.
U32Mul(a, b) ==
    LET c1 == a[1] * b[1]
        c2 == a[1] * b[2] + a[2] * b[1]
        c3 == a[1] * b[3] + a[2] * b[2] + a[3] * b[1]
        c4 == a[1] * b[4] + a[2] * b[3] + a[3] * b[2] + a[4] * b[1]
        high == a[2] * b[4] + a[3] * b[3] + a[4] * b[2]
                  + a[3] * b[4] + a[4] * b[3] + a[4] * b[4]
        t2 == c2 + (c1 \div Byte)
        t3 == c3 + (t2 \div Byte)
        t4 == c4 + (t3 \div Byte)
    IN  [overflow |-> t4 >= Byte \/ high > 0,
         value |-> <<c1 % Byte, t2 % Byte, t3 % Byte, t4 % Byte>>]

\* a + b in u32.
U32Add(a, b) ==
    LET t1 == a[1] + b[1]
        t2 == a[2] + b[2] + (t1 \div Byte)
        t3 == a[3] + b[3] + (t2 \div Byte)
        t4 == a[4] + b[4] + (t3 \div Byte)
    IN  [overflow |-> t4 >= Byte,
         value |-> <<t1 % Byte, t2 % Byte, t3 % Byte, t4 % Byte>>]

\* a / 8, which is below 2^29.
U32Div8(a) ==
    a[4] * ((Byte * Byte * Byte) \div 8)
      + ((a[1] + Byte * a[2] + Byte * Byte * a[3]) \div 8)

\* The left-to-right u32 product of the factors fs: whether a partial product
\* overflows (a panic in a build with overflow checks), and the wrapped value
\* (the result in a build without them).
RECURSIVE U32Product(_)
U32Product(fs) ==
    IF Len(fs) = 1 THEN [overflow |-> FALSE, value |-> fs[1]]
    ELSE LET r == U32Product(SubSeq(fs, 1, Len(fs) - 1))
             p == U32Mul(r.value, fs[Len(fs)])
         IN  [overflow |-> r.overflow \/ p.overflow, value |-> p.value]

Builds == {"debug", "release"}

\* dict.get(key).ok().and_then(as_i64).unwrap_or(default) as u32
DictU32(v, default) == IF v = None THEN U32FromInt(default) ELSE I64AsU32(v[1])

ChannelsFromName(name) ==
    CASE name \in {"DeviceGray", "CalGray", "G"} -> 1
      [] name \in {"DeviceRGB", "CalRGB", "RGB"} -> 3
      [] name \in {"DeviceCMYK", "CMYK"} -> 4
      [] OTHER -> 3

\* A ColorSpace entry.  kind is "missing", "name" (name), "reference" (name is
\* what it resolves to, "" when that is no name) or "array": name is its
\* first element, base its second when that is a name ("" otherwise), hival its
\* third, lookup the byte length of its fourth, n the N of the ICC stream or
\* the number of DeviceN names; absent parts are None.
ColorSpace(kind, name, base, hival, lookup, n) ==
    [kind |-> kind, name |-> name, base |-> base, hival |-> hival,
     lookup |-> lookup, n |-> n]

CsMissing == ColorSpace("missing", "", "", None, None, None)
CsName(name) == ColorSpace("name", name, "", None, None, None)
CsIndexed(base, hival, lookup) ==
    ColorSpace("array", "Indexed", base, Some(hival), Some(lookup), None)
CsICCBased(n) == ColorSpace("array", "ICCBased", "", None, None, Some(n))

\* get_color_channels, a u32.
GetColorChannels(cs) ==
    CASE cs.kind = "missing" -> U32FromInt(3)
      [] cs.kind = "name" -> U32FromInt(ChannelsFromName(cs.name))
      [] cs.kind = "array" ->
           (CASE cs.name = "ICCBased" ->
                   IF cs.n = None THEN U32FromInt(3) ELSE I64AsU32(cs.n[1])
              [] cs.name \in {"Indexed", "CalRGB", "Lab"} -> U32FromInt(3)
              [] cs.name = "CalGray" -> U32FromInt(1)
              [] cs.name = "DeviceN" ->
                   IF cs.n = None THEN U32FromInt(3) ELSE U32FromInt(cs.n[1])
              [] OTHER -> U32FromInt(ChannelsFromName(cs.name)))
      [] cs.kind = "reference" -> U32FromInt(ChannelsFromName(cs.name))
      [] OTHER -> U32FromInt(3)

\* A Filter entry: None, a name (a sequence of one name, array FALSE) or an
\* array of names.
FilterName(name) == Some([array |-> FALSE, names |-> <<name>>])
FilterArray(names) == Some([array |-> TRUE, names |-> names])

GetFilterName(filter) ==
    IF filter = None THEN None
    ELSE IF ~filter[1].array THEN Some(filter[1].names[1])
    ELSE LET names == filter[1].names
             image_codecs == {k \in 1..Len(names) :
                                names[k] \in {"DCTDecode", "JPXDecode", "CCITTFaxDecode"}}
         IN  IF image_codecs # {} THEN Some(names[SetMax(image_codecs)])
             ELSE IF names # <<>> THEN Some(names[1])
             ELSE None

\* len < a * b, for integers len and a and a u32 b, the product taken in usize.
LessThanProduct(len, a, b) ==
    IF a = 0 THEN FALSE
    ELSE IF ~U32Fits(b) THEN TRUE
    ELSE len \div a < U32Int(b)

\* image::ImageBuffer::from_raw(width, height, buf): Some exactly when buf
\* holds at least width * height * channels bytes, computed without wrapping.
FromRawOk(width, height, channels, len) ==
    LET need == U32Product(<<width, height, channels>>)
    IN  ~need.overflow /\ U32Fits(need.value) /\ U32Int(need.value) <= len

IndexedNone == [kind |-> "none", len |-> 0]
IndexedPanic == [kind |-> "panic", len |-> 0]

\* try_decode_indexed: "none", "some" with the length of rgb_data, or "panic".
\* The bytes themselves are left out; data_len is data.len().
TryDecodeIndexed(cs, data_len, width, height, bits, build) ==
    LET base_channels == IF cs.base = "" THEN 3 ELSE ChannelsFromName(cs.base)
        hival == cs.hival[1]
        expected_lookup_size == (hival + 1) * base_channels
        pixel_count == U32Product(<<width, height>>)
        row_bits == U32Mul(width, bits)
        row_bits7 == U32Add(row_bits.value, U32FromInt(7))
        bytes_per_row == U32Div8(row_bits7.value)
    IN  IF cs.kind # "array" \/ cs.name # "Indexed" THEN IndexedNone
        ELSE IF cs.hival = None \/ cs.lookup = None THEN IndexedNone
        ELSE IF cs.lookup[1] < expected_lookup_size THEN IndexedNone
        ELSE IF /\ build = "debug"
                /\ pixel_count.overflow \/ row_bits.overflow \/ row_bits7.overflow
             THEN IndexedPanic
        ELSE IF LessThanProduct(data_len, bytes_per_row, height) THEN IndexedNone
        ELSE IF ~U32Below(pixel_count.value, data_len + 1)
             THEN IndexedPanic                    \* data[i] with i = data.len()
        ELSE [kind |-> "some", len |-> U32Int(pixel_count.value) * base_channels]

\* An object of the document that collect_all_image_ids looks at, with what the
\* loop of extract_images reads from it: subtype, the page find_page_for_object
\* gives (0: none), Width, Height, Filter, BitsPerComponent and ColorSpace
\* entries, the byte length of stream.content, of decompressed_content() and of
\* manual_inflate(content) (None: Err), and whether writing its file succeeds.
ImageObject(subtype, page, width, height, filter, bits, cs, len, dec, inf, wr) ==
    [subtype |-> subtype, page |-> page, width |-> width, height |-> height,
     filter |-> filter, bits |-> bits, cs |-> cs, content_len |-> len,
     decoded |-> dec, inflated |-> inf, write_ok |-> wr]

MinImageSide == 10
DefaultBits == 8

\* What one iteration of the loop of extract_images does: "pushed" (with format
\* and extension), "skipped" or "panic", and at which step.
Outcome(kind, at, format, ext) ==
    [kind |-> kind, at |-> at, format |-> format, ext |-> ext]
Skipped(at) == Outcome("skipped", at, "", "")
Panicked(at) == Outcome("panic", at, "", "")
Pushed(at, format, ext) == Outcome("pushed", at, format, ext)

\* Some("DCTDecode") and Some("JPXDecode"): the stream bytes are written as is.
PassThroughOutcome(c, format, ext) ==
    LET data_len == IF c.decoded = None THEN c.content_len ELSE c.decoded[1]
    IN  IF data_len = 0 THEN Skipped("empty data")
        ELSE IF ~c.write_ok THEN Skipped("write")
        ELSE Pushed("write", format, ext)

\* The bitmap path shared by FlateDecode (four: RGBA is built for 4 channels)
\* and unfiltered streams (it is not).
BitmapOutcome(c, width, height, data_len, build, four) ==
    LET channels == GetColorChannels(c.cs)
        bits == DictU32(c.bits, DefaultBits)
        prod == U32Product(<<width, height, channels, bits>>)
        expected_size == U32Div8(prod.value)
    IN  IF build = "debug" /\ prod.overflow THEN Panicked("expected_size")
        ELSE IF data_len < expected_size THEN Skipped("short data")
        ELSE IF ~\E n \in (IF four THEN {1, 3, 4} ELSE {1, 3}) :
                    channels = U32FromInt(n)
             THEN Skipped("channels")
        ELSE IF ~FromRawOk(width, height, channels, expected_size)
             THEN Skipped("from_raw")
        ELSE IF ~c.write_ok THEN Skipped("save")
        ELSE Pushed("save", "png", "png")

\* Some("FlateDecode"), once the data (data_len bytes) is there and
\* try_decode_indexed has returned ix.
FlateDecodedOutcome(c, width, height, build, data_len, ix) ==
    LET expected == U32Product(<<width, height, U32FromInt(3)>>)
    IN  IF ix.kind = "panic" THEN Panicked("try_decode_indexed")
        ELSE IF ix.kind = "some" /\ build = "debug" /\ expected.overflow
             THEN Panicked("expected")
        ELSE IF /\ ix.kind = "some"
                /\ U32Fits(expected.value)
                /\ ix.len >= U32Int(expected.value)
                /\ FromRawOk(width, height, U32FromInt(3), U32Int(expected.value))
             THEN IF ~c.write_ok THEN Skipped("save indexed")
                  ELSE Pushed("save indexed", "png", "png")
        ELSE BitmapOutcome(c, width, height, data_len, build, TRUE)

\* Some("FlateDecode")
FlateOutcome(c, width, height, build) ==
    LET data == IF c.decoded # None THEN c.decoded ELSE c.inflated
    IN  IF data = None THEN Skipped("inflate")
        ELSE FlateDecodedOutcome(c, width, height, build, data[1],
                 TryDecodeIndexed(c.cs, data[1], width, height,
                                  DictU32(c.bits, DefaultBits), build))

\* The match on the filter name, for a candidate of width x height.
DecodeOutcome(c, width, height, build) ==
    LET filter_name == GetFilterName(c.filter)
    IN  IF filter_name = Some("DCTDecode")
             THEN PassThroughOutcome(c, "jpeg", "jpg")
        ELSE IF filter_name = Some("FlateDecode")
             THEN FlateOutcome(c, width, height, build)
        ELSE IF filter_name = Some("JPXDecode")
             THEN PassThroughOutcome(c, "jp2", "jp2")
        ELSE IF filter_name # None THEN Skipped("filter")
        ELSE IF c.content_len = 0 THEN Skipped("empty data")
        ELSE BitmapOutcome(c, width, height, c.content_len, build, FALSE)

\* The body of the loop of extract_images for the candidate c.
CandidateOutcome(c, build) ==
    LET width == DictU32(c.width, 0)
        height == DictU32(c.height, 0)
    IN  IF U32Below(width, MinImageSide) \/ U32Below(height, MinImageSide)
        THEN Skipped("tiny")
        ELSE DecodeOutcome(c, width, height, build)

\* Decimal digits of n, as format!("{}", n) writes them.
RECURSIVE Decimal(_)
Decimal(n) ==
    LET d == <<"0", "1", "2", "3", "4", "5", "6", "7", "8", "9">>[(n % 10) + 1]
    IN  IF n < 10 THEN <<d>> ELSE Append(Decimal(n \div 10), d)

MutImageFileNameWithoutPaperId(images_dir, paper_id, img_index, ext) ==
    images_dir \o <<"/">> \o <<"i", "m", "g", "_">>
      \o Decimal(img_index) \o <<".">> \o ext

\* format!("{}/{}_img_{}.{ext}", images_dir, paper_id, img_index)
ImageFileName(images_dir, paper_id, img_index, ext) ==
    images_dir \o <<"/">> \o paper_id \o <<"_", "i", "m", "g", "_">>
      \o Decimal(img_index) \o <<".">> \o ext

Ext_jpg == <<"j", "p", "g">>
Ext_png == <<"p", "n", "g">>
Ext_jp2 == <<"j", "p", "2">>
ExtChars(ext) ==
    CASE ext = "jpg" -> Ext_jpg [] ext = "png" -> Ext_png [] ext = "jp2" -> Ext_jp2

\* image_ids.sort_by_key(|(_, page)| *page): a stable sort.
RECURSIVE SortByPage(_)
SortByPage(ids) ==
    IF ids = <<>> THEN <<>>
    ELSE LET rest == SortByPage(Tail(ids))
             before == {k \in 1..Len(rest) : rest[k].page < ids[1].page}
             n == IF before = {} THEN 0 ELSE SetMax(before)
         IN  SubSeq(rest, 1, n) \o <<ids[1]>> \o SubSeq(rest, n + 1, Len(rest))

\* collect_all_image_ids: doc.objects is a BTreeMap, iterated in the order of
\* the object ids; objects is the sequence of its values in that order.
CollectAllImageIds(objects) ==
    LET RECURSIVE Scan(_)
        Scan(k) ==
            IF k > Len(objects) THEN <<>>
            ELSE IF objects[k].subtype = "Image"
                 THEN <<[obj_id |-> k, page |-> objects[k].page]>> \o Scan(k + 1)
            ELSE Scan(k + 1)
    IN  SortByPage(Scan(1))

\* The outcomes of the three setup calls of extract_images.
SetupOk == [pdf_exists |-> TRUE, create_dir_ok |-> TRUE, load_ok |-> TRUE]
SetupNoPdf == [pdf_exists |-> FALSE, create_dir_ok |-> TRUE, load_ok |-> TRUE]
SetupNoDir == [pdf_exists |-> TRUE, create_dir_ok |-> FALSE, load_ok |-> TRUE]
SetupNoLoad == [pdf_exists |-> TRUE, create_dir_ok |-> TRUE, load_ok |-> FALSE]

\* extract_images is called.  files are the image files in images_dir,
\* dir_created tells whether create_dir_all has made it, error which call the
\* Err that is returned comes from.
ImgStart(objects, build, paper_id, images_dir) ==
    [pc |-> "start", objects |-> objects, build |-> build,
     paper_id |-> paper_id, images_dir |-> images_dir,
     image_ids |-> <<>>, i |-> 1, images |-> <<>>, img_index |-> 0,
     files |-> {}, dir_created |-> FALSE, last |-> Skipped("none"),
     error |-> ""]

\* Lines 20-33: the setup, up to the list of candidates.
ImgSetupStep(st, setup) ==
    IF ~setup.pdf_exists THEN [st EXCEPT !.pc = "err", !.error = "exists"]
    ELSE IF ~setup.create_dir_ok
         THEN [st EXCEPT !.pc = "err", !.error = "create_dir_all"]
    ELSE IF ~setup.load_ok
         THEN [st EXCEPT !.pc = "err", !.error = "load", !.dir_created = TRUE]
    ELSE [st EXCEPT !.pc = "loop", !.dir_created = TRUE,
                    !.image_ids = CollectAllImageIds(st.objects)]

\* The candidate the loop over image_ids is at.
ImgCandidate(st) == st.objects[st.image_ids[st.i].obj_id]

MutImgOutcomeStepCountsSkips(st, o) ==
    LET id == st.image_ids[st.i]
        c == st.objects[id.obj_id]
        filename == ImageFileName(st.images_dir, st.paper_id, st.img_index,
                                  ExtChars(o.ext))
        next == [st EXCEPT !.i = st.i + 1, !.last = o]
    IN  IF o.kind = "panic" THEN [next EXCEPT !.pc = "panic"]
        ELSE IF o.kind = "skipped"
             THEN [next EXCEPT !.img_index = st.img_index + 1]
        ELSE [next EXCEPT !.files = st.files \cup {filename},
                          !.img_index = st.img_index + 1,
                          !.images = Append(st.images,
                              [filename |-> filename, page |-> id.page,
                               width |-> DictU32(c.width, 0),
                               height |-> DictU32(c.height, 0),
                               format |-> o.format])]

\* One iteration of the loop over image_ids, whose body does o.
ImgOutcomeStep(st, o) ==
    LET id == st.image_ids[st.i]
        c == st.objects[id.obj_id]
        filename == ImageFileName(st.images_dir, st.paper_id, st.img_index,
                                  ExtChars(o.ext))
        next == [st EXCEPT !.i = st.i + 1, !.last = o]
    IN  IF o.kind = "panic" THEN [next EXCEPT !.pc = "panic"]
        ELSE IF o.kind = "skipped" THEN next
        ELSE [next EXCEPT !.files = st.files \cup {filename},
                          !.img_index = st.img_index + 1,
                          !.images = Append(st.images,
                              [filename |-> filename, page |-> id.page,
                               width |-> DictU32(c.width, 0),
                               height |-> DictU32(c.height, 0),
                               format |-> o.format])]

ImgCandidateStep(st) ==
    ImgOutcomeStep(st, CandidateOutcome(ImgCandidate(st), st.build))

\* Ok(images)
ImgFinishStep(st) == [st EXCEPT !.pc = "ok"]

ImgStep(st, setup) ==
    IF st.pc = "start" THEN ImgSetupStep(st, setup)
    ELSE IF st.pc # "loop" THEN st
    ELSE IF st.i > Len(st.image_ids) THEN ImgFinishStep(st)
    ELSE ImgCandidateStep(st)

RECURSIVE ImgRun(_, _)
ImgRun(st, setup) ==
    IF st.pc \in {"ok", "err", "panic"} THEN st ELSE ImgRun(ImgStep(st, setup), setup)

\* extract_images(pdf_path, paper_id, images_dir): its final state, with pc
\* "ok" (Ok(images)), "err" (Err) or "panic".
ExtractImages(objects, build, paper_id, images_dir, setup) ==
    ImgRun(ImgStart(objects, build, paper_id, images_dir), setup)

---------------------------------------------------------------------------
(* The image extractor as a state machine, one action per loop iteration *)

F_DCT == FilterName("DCTDecode")
F_Flate == FilterName("FlateDecode")
F_JPX == FilterName("JPXDecode")
F_LZW == FilterName("LZWDecode")
F_A85_DCT == FilterArray(<<"DCTDecode", "ASCII85Decode">>)
Rgb == CsName("DeviceRGB")

\* Image objects of width x height on page 0 whose file can be written.
Img(width, height, filter, bits, cs, content_len, decoded, inflated) ==
    ImageObject("Image", 0, Some(width), Some(height), filter, bits, cs,
                content_len, decoded, inflated, TRUE)

K_jpeg == Img(16, 12, F_DCT, None, Rgb, 40, None, None)
K_jpeg_page1 == [K_jpeg EXCEPT !.page = 1]
K_jpeg_array == Img(16, 12, F_A85_DCT, None, Rgb, 50, Some(40), None)
K_jpeg_empty == Img(16, 12, F_DCT, None, Rgb, 0, None, None)
K_jpeg_unwritable == [K_jpeg EXCEPT !.write_ok = FALSE]
K_narrow == Img(9, 12, F_DCT, None, Rgb, 40, None, None)
K_no_height == [K_jpeg EXCEPT !.height = None]
K_negative_width == [K_jpeg EXCEPT !.width = Some(-5)]
K_jpx == Img(10, 10, F_JPX, None, Rgb, 40, None, None)
K_lzw == Img(10, 10, F_LZW, None, Rgb, 40, Some(300), None)
K_flate_rgb == Img(10, 10, F_Flate, Some(8), Rgb, 40, Some(300), None)
K_flate_page1 == [K_flate_rgb EXCEPT !.page = 1]
K_flate_short == Img(10, 10, F_Flate, Some(8), Rgb, 40, Some(297), None)
K_flate_manual == Img(10, 10, F_Flate, None, CsMissing, 40, None, Some(300))
K_flate_broken == Img(10, 10, F_Flate, Some(8), Rgb, 40, None, None)
K_flate_cmyk == Img(10, 10, F_Flate, Some(8), CsName("DeviceCMYK"), 40, Some(400), None)
K_flate_icc2 == Img(10, 10, F_Flate, Some(8), CsICCBased(2), 40, Some(200), None)
K_flate_unwritable == [K_flate_rgb EXCEPT !.write_ok = FALSE]
K_flate_huge == Img(65536, 65536, F_Flate, Some(8), Rgb, 40, Some(300), None)
K_flate_wrap == Img(20000, 10000, F_Flate, Some(32), CsName("DeviceGray"), 40, Some(263129088), None)
K_indexed == Img(10, 10, F_Flate, Some(8), CsIndexed("DeviceRGB", 3, 12), 40, Some(100), None)
K_indexed_4bit == Img(10, 10, F_Flate, Some(4), CsIndexed("DeviceRGB", 3, 12), 40, Some(50), None)
K_indexed_small_lookup == Img(10, 10, F_Flate, Some(8), CsIndexed("DeviceRGB", 3, 9), 40, Some(100), None)
K_raw_gray == Img(10, 10, None, Some(8), CsName("DeviceGray"), 100, None, None)
K_raw_cmyk == Img(10, 10, None, Some(8), CsName("DeviceCMYK"), 400, None, None)
K_raw_empty == Img(10, 10, None, Some(8), Rgb, 0, None, None)
K_indexed_gray == Img(10, 10, F_Flate, Some(8), CsIndexed("DeviceGray", 3, 4), 40, Some(100), None)
K_indexed_cmyk == Img(10, 10, F_Flate, Some(8), CsIndexed("DeviceCMYK", 3, 16), 40, Some(100), None)
K_raw_rgb == Img(10, 10, None, None, Rgb, 300, None, None)
K_flate_gray16 == Img(10, 10, F_Flate, Some(16), CsName("DeviceGray"), 40, Some(200), None)
K_flate_gray4 == Img(10, 10, F_Flate, Some(4), CsName("DeviceGray"), 40, Some(50), None)
K_form == [K_jpeg EXCEPT !.subtype = "Form"]

ObjectVocabulary ==
    <<K_jpeg, K_jpeg_page1, K_jpeg_array, K_jpeg_empty, K_jpeg_unwritable,
      K_narrow, K_no_height, K_negative_width, K_jpx, K_lzw, K_flate_rgb, K_flate_page1,
      K_flate_short, K_flate_manual, K_flate_broken, K_flate_cmyk, K_flate_icc2,
      K_flate_unwritable, K_flate_huge, K_flate_wrap, K_indexed, K_indexed_4bit,
      K_indexed_small_lookup, K_raw_gray, K_raw_cmyk, K_raw_empty, K_form,
      K_raw_rgb, K_flate_gray16, K_flate_gray4, K_indexed_gray, K_indexed_cmyk>>

MaxObjects == 2

\* The documents: up to MaxObjects objects in the order of their ids.
ImgDocuments ==
    {[k \in 1..Len(ks) |-> ObjectVocabulary[ks[k]]] :
        ks \in SeqUpTo(1..Len(ObjectVocabulary), MaxObjects)}

PaperId == <<"2", "4", "0", "1", ".", "1">>
ImagesDir == <<"o", "u", "t">>

ImgOthersIdle == seg = Idle /\ tab = Idle /\ fex = Idle /\ pipe = Idle /\ walk = Idle /\ par = Idle /\ refs = Idle /\ crawl = Idle /\ search = Idle /\ trans = Idle

ImgInit ==
    /\ img \in {ImgStart(d, b, PaperId, ImagesDir) : d \in ImgDocuments, b \in Builds}
    /\ ImgOthersIdle

\* if !Path::new(pdf_path).exists() { return Err(..) }
ImgMissingPdf ==
    /\ img.pc = "start"
    /\ img' = ImgSetupStep(img, SetupNoPdf)
    /\ UNCHANGED <<seg, tab, fex, pipe, walk, par, refs, crawl, search, trans>>

\* std::fs::create_dir_all(images_dir)?
ImgCreateDirFails ==
    /\ img.pc = "start"
    /\ img' = ImgSetupStep(img, SetupNoDir)
    /\ UNCHANGED <<seg, tab, fex, pipe, walk, par, refs, crawl, search, trans>>

\* Document::load(pdf_path)?
ImgLoadFails ==
    /\ img.pc = "start"
    /\ img' = ImgSetupStep(img, SetupNoLoad)
    /\ UNCHANGED <<seg, tab, fex, pipe, walk, par, refs, crawl, search, trans>>

ImgSetup ==
    /\ img.pc = "start"
    /\ img' = ImgSetupStep(img, SetupOk)
    /\ UNCHANGED <<seg, tab, fex, pipe, walk, par, refs, crawl, search, trans>>

ImgAtCandidate == img.pc = "loop" /\ img.i <= Len(img.image_ids)

\* What the loop body does with the candidate it is at.
ImgCurrentOutcome == {CandidateOutcome(ImgCandidate(img), img.build)}

\* if width < 10 || height < 10 { continue; }
ImgSkipTiny ==
    /\ ImgAtCandidate
    /\ \E o \in ImgCurrentOutcome :
          /\ o = Skipped("tiny")
          /\ img' = ImgOutcomeStep(img, o)
    /\ UNCHANGED <<seg, tab, fex, pipe, walk, par, refs, crawl, search, trans>>

\* Every other continue, and the arms that push nothing.
ImgSkipCandidate ==
    /\ ImgAtCandidate
    /\ \E o \in ImgCurrentOutcome :
          /\ o.kind = "skipped" /\ o.at # "tiny"
          /\ img' = ImgOutcomeStep(img, o)
    /\ UNCHANGED <<seg, tab, fex, pipe, walk, par, refs, crawl, search, trans>>

\* images.push(..); img_index += 1
ImgPushImage ==
    /\ ImgAtCandidate
    /\ \E o \in ImgCurrentOutcome :
          /\ o.kind = "pushed"
          /\ img' = ImgOutcomeStep(img, o)
    /\ UNCHANGED <<seg, tab, fex, pipe, walk, par, refs, crawl, search, trans>>

\* An index past the end of the data, or a u32 overflow in a checked build.
ImgPanics ==
    /\ ImgAtCandidate
    /\ \E o \in ImgCurrentOutcome :
          /\ o.kind = "panic"
          /\ img' = ImgOutcomeStep(img, o)
    /\ UNCHANGED <<seg, tab, fex, pipe, walk, par, refs, crawl, search, trans>>

\* Ok(images)
ImgFinish ==
    /\ img.pc = "loop"
    /\ img.i > Len(img.image_ids)
    /\ img' = ImgFinishStep(img)
    /\ UNCHANGED <<seg, tab, fex, pipe, walk, par, refs, crawl, search, trans>>

ImgNext ==
    \/ ImgMissingPdf \/ ImgCreateDirFails \/ ImgLoadFails \/ ImgSetup
    \/ ImgSkipTiny \/ ImgSkipCandidate \/ ImgPushImage \/ ImgPanics \/ ImgFinish

SpecImages == ImgInit /\ [][ImgNext]_vars

---------------------------------------------------------------------------
(* Claims about the image extractor *)

\* C3, as stated: once setup has succeeded, extract_images returns Ok for every
\* set of image candidates; a candidate that violates a codec assumption is
\* skipped, the run is never aborted, and every later candidate is still
\* processed.
C3_CandidatesNeverAbortRun ==
    /\ img.pc # "panic"
    /\ img.pc = "ok" => img.i = Len(img.image_ids) + 1

\* The Width and Height entries of the candidate of the last loop iteration.
ImgLastCandidate == img.objects[img.image_ids[img.i - 1].obj_id]

EntryBelow(v, n) == v = None \/ v[1] < n

\* C7, as stated: every ExtractedImage returned has width >= 10 and
\* height >= 10, and a candidate whose Width or Height is missing or below 10
\* is discarded before any decoding and produces no file.
C7_SmallOrMissingSideDiscarded ==
    /\ \A k \in 1..Len(img.images) :
          /\ ~U32Below(img.images[k].width, MinImageSide)
          /\ ~U32Below(img.images[k].height, MinImageSide)
    /\ (img.pc \in {"loop", "ok", "panic"} /\ img.i > 1
          /\ \/ EntryBelow(ImgLastCandidate.width, MinImageSide)
             \/ EntryBelow(ImgLastCandidate.height, MinImageSide))
         => img.last = Skipped("tiny")

---------------------------------------------------------------------------
(* The extraction pipeline: src/parser/mod.rs, ExtractionPipeline::process *)

\* What the file system and the PDF libraries answer during one call of
\* process: whether the path exists when the text extractor and when the image
\* extractor ask, and whether pdf_extract::extract_text, create_dir_all and
\* Document::load succeed.
Environment(pdf_exists, text_ok, pdf_exists_later, create_dir_ok, load_ok) ==
    [pdf_exists |-> pdf_exists, text_ok |-> text_ok,
     pdf_exists_later |-> pdf_exists_later, create_dir_ok |-> create_dir_ok,
     load_ok |-> load_ok]

\* The setup outcomes extract_images meets in the environment env.
ImageSetup(env) ==
    [pdf_exists |-> env.pdf_exists_later, create_dir_ok |-> env.create_dir_ok,
     load_ok |-> env.load_ok]

\* extract_full_text: Some(text), or None for Err.
ExtractFullText(paper) ==
    IF ~paper.env.pdf_exists THEN None
    ELSE IF ~paper.env.text_ok THEN None
    ELSE Some(paper.text)

\* process(pdf_path, paper_id, images_dir) is called for the input paper (its
\* text, its objects, the environment, the build and whether debug lines are
\* logged).  run numbers the call, first is what the call before it ended
\* with, stages lists the stages run after the text extraction, image_calls
\* counts the calls of extract_images; files and dir_created are the output
\* directory.
PipeStart(paper, run, random_state, first) ==
    [pc |-> "text", paper |-> paper, run |-> run, random_state |-> random_state,
     first |-> first, full_text |-> <<>>, metadata |-> None, sections |-> <<>>,
     formulas |-> <<>>, images |-> <<>>, tables |-> <<>>, stages |-> <<>>,
     image_calls |-> 0, image_error |-> "", files |-> {}, dir_created |-> FALSE,
     result |-> None]

MutPipeTextStepIgnoresError(p) ==
    [p EXCEPT !.pc = "structure",
              !.full_text = IF ExtractFullText(p.paper) = None THEN <<>>
                            ELSE p.paper.text]

\* let full_text = self.pdf_parser.extract_full_text(pdf_path)?;
PipeTextStep(p) ==
    IF ExtractFullText(p.paper) = None THEN [p EXCEPT !.pc = "err"]
    ELSE [p EXCEPT !.pc = "structure", !.full_text = ExtractFullText(p.paper)[1]]

\* let (metadata, sections) = self.pdf_parser.extract_structured_text(&full_text);
PipeStructureStep(p) ==
    [p EXCEPT !.pc = "formulas", !.stages = Append(p.stages, "structure"),
              !.metadata = Some(ExtractStructuredText(p.full_text).metadata),
              !.sections = ExtractStructuredText(p.full_text).sections]

\* let formulas = self.formula_extractor.extract(&full_text);  r is what the
\* call gives.
PipeFormulasStep(p, r) ==
    IF r = None
    THEN [p EXCEPT !.pc = "panic", !.stages = Append(p.stages, "formulas")]
    ELSE [p EXCEPT !.pc = "images", !.stages = Append(p.stages, "formulas"),
                   !.formulas = r[1]]

\* let images = match self.image_analyzer.extract_images(..) { Ok(imgs) => imgs,
\* Err(e) => Vec::new() };  r is the state extract_images ends in.
PipeImagesStep(p, r) ==
    LET called == [p EXCEPT !.stages = Append(p.stages, "images"),
                            !.image_calls = p.image_calls + 1,
                            !.files = p.files \cup r.files,
                            !.dir_created = p.dir_created \/ r.dir_created]
    IN  IF r.pc = "panic" THEN [called EXCEPT !.pc = "panic"]
        ELSE IF r.pc = "err"
             THEN [called EXCEPT !.pc = "tables", !.images = <<>>,
                                 !.image_error = r.error]
        ELSE [called EXCEPT !.pc = "tables", !.images = r.images]

PaperContent(metadata, sections, formulas, images, tables, full_text) ==
    [metadata |-> metadata, sections |-> sections, formulas |-> formulas,
     images |-> images, tables |-> tables, full_text |-> full_text]

\* let tables = self.table_parser.extract(&full_text); Ok(PaperContent { .. })
PipeTablesStep(p) ==
    [p EXCEPT !.pc = "ok", !.stages = Append(p.stages, "tables"),
              !.tables = TableExtract(p.full_text),
              !.result = Some(PaperContent(p.metadata[1], p.sections, p.formulas,
                                           p.images, TableExtract(p.full_text),
                                           p.full_text))]

\* What a call of process ends with: how, and the PaperContent if any.
PipeOutcome(p) == [pc |-> p.pc, result |-> p.result]

\* The output directory is cleared and process is called again for the same
\* input, in the same environment; seen gets the keys random_state.
PipeRerunStep(p, random_state) ==
    PipeStart(p.paper, p.run + 1, random_state,
              Some([outcome |-> PipeOutcome(p), random_state |-> p.random_state]))

---------------------------------------------------------------------------
(* The pipeline as a state machine, one action per stage *)

F_Methods == <<"1", ".", " ", "M", "e", "t", "h", "o", "d", "s">>
F_Table1 == <<"T", "a", "b", "l", "e", " ", "1">>
F_row_ab == <<"a", " ", " ", "b">>
F_row_cd == <<"c", " ", " ", "d">>

\* A paper with a section, two formulas and a captioned table.
PaperText ==
    Join(<<F_Methods, Concat(<<F_theta, F_x_eq, F_abc>>), F_sum_ab, F_Table1,
           F_row_ab, F_row_cd>>, <<"\n">>)

\* A text whose first formula is long enough for the debug line's preview, and
\* whose byte 80 is inside a character.
PreviewText ==
    Concat(<<F_pad, F_sp, <<ChEAcute>>, F_sp, <<ChEAcute>>, F_sp, F_pad, F_sp,
             F_x_eq, F_abc>>)

PipeTexts == <<SegScenarioText, TabScenarioText, PaperText, PreviewText, <<>> >>

PipeDocuments ==
    << <<>>, <<K_jpeg, K_flate_rgb>>, <<K_jpeg_page1, K_jpeg>>, <<K_indexed_4bit>>,
       <<K_flate_huge, K_jpeg>>, <<K_negative_width, K_raw_gray>> >>

EnvOk == Environment(TRUE, TRUE, TRUE, TRUE, TRUE)
EnvNoPdf == Environment(FALSE, TRUE, FALSE, TRUE, TRUE)
EnvTextFails == Environment(TRUE, FALSE, TRUE, TRUE, TRUE)
EnvPdfVanishes == Environment(TRUE, TRUE, FALSE, TRUE, TRUE)
EnvNoDir == Environment(TRUE, TRUE, TRUE, FALSE, TRUE)
EnvNoLoad == Environment(TRUE, TRUE, TRUE, TRUE, FALSE)

PipeEnvironments == {EnvOk, EnvNoPdf, EnvTextFails, EnvPdfVanishes, EnvNoDir, EnvNoLoad}

\* The number of calls of process for one input.
MaxRuns == 2

Paper(text, objects, env, build, log_debug) ==
    [text |-> text, objects |-> objects, env |-> env, build |-> build,
     log_debug |-> log_debug]

Papers ==
    {Paper(PipeTexts[t], PipeDocuments[d], env, b, dbg) :
        t \in 1..Len(PipeTexts), d \in 1..Len(PipeDocuments),
        env \in PipeEnvironments, b \in Builds, dbg \in BOOLEAN}

PipeOthersIdle == seg = Idle /\ tab = Idle /\ fex = Idle /\ img = Idle /\ walk = Idle /\ par = Idle /\ refs = Idle /\ crawl = Idle /\ search = Idle /\ trans = Idle

PipeInit ==
    /\ pipe \in {PipeStart(paper, 1, k, None) : paper \in Papers, k \in RandomStates}
    /\ PipeOthersIdle

PipeTextFails ==
    /\ pipe.pc = "text"
    /\ ExtractFullText(pipe.paper) = None
    /\ pipe' = PipeTextStep(pipe)
    /\ UNCHANGED <<seg, tab, fex, img, walk, par, refs, crawl, search, trans>>

PipeText ==
    /\ pipe.pc = "text"
    /\ ExtractFullText(pipe.paper) # None
    /\ pipe' = PipeTextStep(pipe)
    /\ UNCHANGED <<seg, tab, fex, img, walk, par, refs, crawl, search, trans>>

PipeStructure ==
    /\ pipe.pc = "structure"
    /\ pipe' = PipeStructureStep(pipe)
    /\ UNCHANGED <<seg, tab, fex, img, walk, par, refs, crawl, search, trans>>

PipeFormulasResult ==
    {FormulaExtract(pipe.full_text, pipe.paper.log_debug, pipe.random_state)}

PipeFormulas ==
    /\ pipe.pc = "formulas"
    /\ \E r \in PipeFormulasResult :
          /\ r # None
          /\ pipe' = PipeFormulasStep(pipe, r)
    /\ UNCHANGED <<seg, tab, fex, img, walk, par, refs, crawl, search, trans>>

PipeFormulasPanic ==
    /\ pipe.pc = "formulas"
    /\ \E r \in PipeFormulasResult :
          /\ r = None
          /\ pipe' = PipeFormulasStep(pipe, r)
    /\ UNCHANGED <<seg, tab, fex, img, walk, par, refs, crawl, search, trans>>

PipeImagesResult ==
    {ExtractImages(pipe.paper.objects, pipe.paper.build, PaperId, ImagesDir,
                   ImageSetup(pipe.paper.env))}

PipeImages ==
    /\ pipe.pc = "images"
    /\ \E r \in PipeImagesResult :
          /\ r.pc = "ok"
          /\ pipe' = PipeImagesStep(pipe, r)
    /\ UNCHANGED <<seg, tab, fex, img, walk, par, refs, crawl, search, trans>>

PipeImagesFail ==
    /\ pipe.pc = "images"
    /\ \E r \in PipeImagesResult :
          /\ r.pc = "err"
          /\ pipe' = PipeImagesStep(pipe, r)
    /\ UNCHANGED <<seg, tab, fex, img, walk, par, refs, crawl, search, trans>>

PipeImagesPanic ==
    /\ pipe.pc = "images"
    /\ \E r \in PipeImagesResult :
          /\ r.pc = "panic"
          /\ pipe' = PipeImagesStep(pipe, r)
    /\ UNCHANGED <<seg, tab, fex, img, walk, par, refs, crawl, search, trans>>

PipeTables ==
    /\ pipe.pc = "tables"
    /\ pipe' = PipeTablesStep(pipe)
    /\ UNCHANGED <<seg, tab, fex, img, walk, par, refs, crawl, search, trans>>

PipeRerun ==
    /\ pipe.pc \in {"ok", "err", "panic"}
    /\ pipe.run < MaxRuns
    /\ \E k \in RandomStates : pipe' = PipeRerunStep(pipe, k)
    /\ UNCHANGED <<seg, tab, fex, img, walk, par, refs, crawl, search, trans>>

PipeNext ==
    \/ PipeTextFails
    \/ PipeText
    \/ PipeStructure
    \/ PipeFormulas
    \/ PipeFormulasPanic
    \/ PipeImages
    \/ PipeImagesFail
    \/ PipeImagesPanic
    \/ PipeTables
    \/ PipeRerun

SpecPipeline == PipeInit /\ [][PipeNext]_vars

---------------------------------------------------------------------------
(* Claims about the pipeline *)

PipeEnded == pipe.pc \in {"ok", "err", "panic"}

\* C1: when the text extraction fails, because the path does not exist or
\* because the text cannot be decoded, process returns an error and no
\* PaperContent, and no later stage runs: extract_images is not called, the
\* output directory is not created and no image file is written.
C1_TextFailureIsFatal ==
    (ExtractFullText(pipe.paper) = None /\ pipe.pc # "text")
      => /\ pipe.pc = "err"
         /\ pipe.result = None
         /\ pipe.stages = <<>>
         /\ pipe.image_calls = 0
         /\ ~pipe.dir_created
         /\ pipe.files = {}

\* The text of a paper with images cannot be decoded, while everything the image
\* extractor needs is there, and process has returned.
C1_Witness ==
    /\ pipe.pc = "err"
    /\ pipe.paper.env = EnvTextFails
    /\ pipe.paper.text = PaperText
    /\ pipe.paper.objects = <<K_jpeg, K_flate_rgb>>

\* C2: when the text extraction succeeds, process returns a full PaperContent:
\* it neither fails nor panics, and in what it returns metadata, sections,
\* formulas, tables and full_text are what the text alone gives, and images is
\* empty when extract_images has failed.
C2_TextSuccessGivesFullContent ==
    ExtractFullText(pipe.paper) # None
      => /\ pipe.pc \notin {"err", "panic"}
         /\ pipe.pc = "ok"
              => /\ pipe.result # None
                 /\ pipe.image_error # "" => pipe.result[1].images = <<>>
                 /\ pipe.result[1].full_text = pipe.paper.text
                 /\ pipe.result[1].metadata
                      = ExtractStructuredText(pipe.paper.text).metadata
                 /\ pipe.result[1].sections
                      = ExtractStructuredText(pipe.paper.text).sections
                 /\ Some(pipe.result[1].formulas)
                      = FormulaExtract(pipe.paper.text, pipe.paper.log_debug,
                                       pipe.random_state)
                 /\ pipe.result[1].tables = TableExtract(pipe.paper.text)

---------------------------------------------------------------------------
(* Claims about the bitmap path of the image extractor *)

\* A candidate has been processed by the loop of extract_images.
ImgCandidateDone == img.pc \in {"loop", "ok", "panic"} /\ img.i > 1

\* c is a FlateDecode candidate that is not tiny, whose ColorSpace is not an
\* Indexed array and whose stream decompresses.
FlateBitmapCandidate(c) ==
    /\ ~EntryBelow(c.width, MinImageSide)
    /\ ~EntryBelow(c.height, MinImageSide)
    /\ GetFilterName(c.filter) = Some("FlateDecode")
    /\ ~(c.cs.kind = "array" /\ c.cs.name = "Indexed")
    /\ (c.decoded # None \/ c.inflated # None)

\* data.len() of a FlateDecode candidate.
FlateDataLen(c) == IF c.decoded # None THEN c.decoded[1] ELSE c.inflated[1]

\* len * 8 >= width * height * channels * bits, the product being the
\* mathematical one: a product of non-zero factors that does not fit 32 bits is
\* more than eight times any length of the model.
CoversTrueSize(c, len) ==
    LET fs == <<DictU32(c.width, 0), DictU32(c.height, 0),
                GetColorChannels(c.cs), DictU32(c.bits, DefaultBits)>>
        prod == U32Product(fs)
    IN  IF \E k \in 1..Len(fs) : fs[k] = U32FromInt(0) THEN TRUE
        ELSE /\ ~prod.overflow
             /\ U32Fits(prod.value)
             /\ U32Int(prod.value) <= 8 * len

\* C11: a FlateDecode candidate without a palette gives an image only if its
\* decompressed data covers width x height x channels x bits / 8, the product
\* not wrapped to 32 bits; a candidate whose data is short is skipped, takes
\* no index, and does not end the call.
C11_FlateImageOnlyWithEnoughData ==
    (ImgCandidateDone /\ FlateBitmapCandidate(ImgLastCandidate))
      => /\ img.last.kind = "pushed"
              => CoversTrueSize(ImgLastCandidate, FlateDataLen(ImgLastCandidate))
         /\ ~CoversTrueSize(ImgLastCandidate, FlateDataLen(ImgLastCandidate))
              => /\ img.last.kind = "skipped"
                 /\ img.pc # "panic"
                 /\ img.img_index = Len(img.images)

\* The extension the files of a format get.
FormatExt(format) ==
    CASE format = "jpeg" -> Ext_jpg [] format = "png" -> Ext_png
      [] format = "jp2" -> Ext_jp2

ImgLoopRunning == img.pc \in {"loop", "ok", "panic"}

\* img_index is the number of images pushed so far, and the k-th of them,
\* counted from 0, has the name <images_dir>/<paper_id>_img_<k>.<ext> and its
\* file is written.
IndexCountsImages ==
    ImgLoopRunning
      => /\ img.img_index = Len(img.images)
         /\ \A k \in 1..Len(img.images) :
               /\ img.images[k].filename
                    = ImageFileName(img.images_dir, img.paper_id, k - 1,
                                    FormatExt(img.images[k].format))
               /\ img.images[k].filename \in img.files
         /\ \A j, k \in 1..Len(img.images) :
               j # k => img.images[j].filename # img.images[k].filename

\* An iteration that skips its candidate, or panics, leaves the index, the
\* images and the files as they are; one that pushes an image raises the index
\* by one.
IndexMovesOnlyOnPush ==
    (ImgLoopRunning /\ img'.i = img.i + 1)
      => /\ img'.last.kind \in {"skipped", "panic"}
              => /\ img'.img_index = img.img_index
                 /\ img'.images = img.images
                 /\ img'.files = img.files
         /\ img'.last.kind = "pushed"
              => /\ img'.img_index = img.img_index + 1
                 /\ Len(img'.images) = Len(img.images) + 1

\* C12: the filename counter of extract_images moves only when an image has
\* been written: it always equals the number of images returned so far, the
\* k-th returned image (from 0) is <images_dir>/<paper_id>_img_<k>.<ext>, the
\* indices are consecutive from 0, and a skipped candidate takes none.
C12_IndexIncrementsOnlyOnWrite ==
    []IndexCountsImages /\ [][IndexMovesOnlyOnPush]_vars

\* The first candidate was skipped for its short data and the second one got
\* index 0.
C12_Witness ==
    /\ img.pc = "ok"
    /\ img.objects = <<K_flate_short, K_flate_rgb>>
    /\ Len(img.images) = 1
    /\ img.images[1].filename = ImageFileName(ImagesDir, PaperId, 0, Ext_png)

---------------------------------------------------------------------------
(* Page attribution: collect_all_image_ids over the object graph *)

\* An object of the document as collect_all_image_ids and the walk see it:
\* kind is "page" (a page dictionary), "form" or "image" (a stream whose
\* Subtype is Form or Image) or "other" (neither a dictionary nor a stream);
\* xobjects is None when Resources or its XObject dictionary cannot be read,
\* else the set of object ids the values of that dictionary refer to.
Node(kind, xobjects) == [kind |-> kind, xobjects |-> xobjects]

\* A document: nodes by object id (doc.objects in key order) and the ids of
\* its pages in page order (doc.get_pages(), numbered from 1).
GraphDoc(nodes, pages) == [nodes |-> nodes, pages |-> pages]

MaxWalkDepth == 3

RECURSIVE MutPageReferencesObjectDepth4(_, _, _, _)
MutPageReferencesObjectDepth4(doc, start_id, target_id, depth) ==
    IF depth > MaxWalkDepth + 1 THEN FALSE
    ELSE IF start_id \notin 1..Len(doc.nodes) THEN FALSE
    ELSE IF doc.nodes[start_id].kind = "other" THEN FALSE
    ELSE IF doc.nodes[start_id].xobjects = None THEN FALSE
    ELSE \E ref_id \in doc.nodes[start_id].xobjects[1] :
            \/ ref_id = target_id
            \/ /\ ref_id \in 1..Len(doc.nodes)
               /\ doc.nodes[ref_id].kind = "form"
               /\ MutPageReferencesObjectDepth4(doc, ref_id, target_id, depth + 1)

\* page_references_object(doc, start_id, target_id, depth)
RECURSIVE PageReferencesObject(_, _, _, _)
PageReferencesObject(doc, start_id, target_id, depth) ==
    IF depth > MaxWalkDepth THEN FALSE
    ELSE IF start_id \notin 1..Len(doc.nodes) THEN FALSE
    ELSE IF doc.nodes[start_id].kind = "other" THEN FALSE
    ELSE IF doc.nodes[start_id].xobjects = None THEN FALSE
    ELSE \E ref_id \in doc.nodes[start_id].xobjects[1] :
            \/ ref_id = target_id
            \/ /\ ref_id \in 1..Len(doc.nodes)
               /\ doc.nodes[ref_id].kind = "form"
               /\ PageReferencesObject(doc, ref_id, target_id, depth + 1)

\* find_page_for_object: Some(page_num) of the first page that references
\* target_id, or None.
FindPageForObject(doc, target_id) ==
    LET hits == {n \in 1..Len(doc.pages) :
                   PageReferencesObject(doc, doc.pages[n], target_id, 0)}
    IN  IF hits = {} THEN None ELSE Some(SetMin(hits))

\* collect_all_image_ids is called: obj_id is the object the loop over
\* doc.objects is at, page_num the page the loop of find_page_for_object is at
\* (0: not in it).
WalkStart(doc) ==
    [pc |-> "scan", doc |-> doc, obj_id |-> 1, page_num |-> 0, image_ids |-> <<>>]

\* The loop over doc.objects meets an object that is no Image stream.
WalkSkipStep(w) == [w EXCEPT !.obj_id = w.obj_id + 1]

\* It meets an Image stream: find_page_for_object is called.
WalkFindStep(w) == [w EXCEPT !.pc = "pages", !.page_num = 1]

\* The page at hand does not reference the image.
WalkNextPageStep(w) == [w EXCEPT !.page_num = w.page_num + 1]

\* image_ids.push((obj_id, page)), for the page found or for unwrap_or(0).
WalkPushStep(w, page) ==
    [w EXCEPT !.pc = "scan", !.page_num = 0, !.obj_id = w.obj_id + 1,
              !.image_ids = Append(w.image_ids,
                                   [obj_id |-> w.obj_id, page |-> page])]

\* image_ids.sort_by_key(|(_, page)| *page); image_ids
WalkSortStep(w) == [w EXCEPT !.pc = "done", !.image_ids = SortByPage(w.image_ids)]

---------------------------------------------------------------------------
(* collect_all_image_ids as a state machine, one action per loop iteration *)

XObjectChoices(ids) == {None} \cup {Some(S) : S \in SUBSET ids}

\* Two pages (objects 1 and 2), a Form (3) and two images (4 and 5): every
\* choice of what the pages and the Form refer to, in both page orders.
SmallGraphs ==
    {GraphDoc(<<Node("page", x1), Node("page", x2), Node("form", x3),
                Node("image", None), Node("image", None)>>, pages) :
        x1 \in XObjectChoices({3, 4, 5}), x2 \in XObjectChoices({3, 4, 5}),
        x3 \in XObjectChoices({3, 4, 5}), pages \in {<<1, 2>>, <<2, 1>>}}

\* The longest chain of nested Forms in the documents below.
MaxChainForms == 5

\* Page 1 refers to the first of n nested Forms, the last of which refers to the
\* image (object n + 2; the page itself does when n = 0); with second, a
\* page 2 (object n + 3) refers to the image directly.
ChainGraph(n, second) ==
    GraphDoc([k \in 1..(n + 3) |->
                 IF k = 1 THEN Node("page", Some({2}))
                 ELSE IF k <= n + 1 THEN Node("form", Some({k + 1}))
                 ELSE IF k = n + 2 THEN Node("image", None)
                 ELSE Node("page", IF second THEN Some({n + 2}) ELSE Some({}))],
             <<1, n + 3>>)

\* Two Forms that refer to each other and an image no page reaches; a page
\* whose XObject dictionary refers to a missing object and to a non-stream.
CycleGraph ==
    GraphDoc(<<Node("page", Some({2})), Node("form", Some({3})),
               Node("form", Some({2})), Node("image", None)>>, <<1>>)
DanglingGraph ==
    GraphDoc(<<Node("page", Some({3, 9})), Node("image", None), Node("other", None),
               Node("page", Some({2}))>>, <<1, 4>>)

WalkDocuments ==
    SmallGraphs \cup {CycleGraph, DanglingGraph}
      \cup {ChainGraph(n, s) : n \in 0..MaxChainForms, s \in BOOLEAN}

WalkOthersIdle ==
    seg = Idle /\ tab = Idle /\ fex = Idle /\ img = Idle /\ pipe = Idle /\ par = Idle /\ refs = Idle /\ crawl = Idle /\ search = Idle /\ trans = Idle

WalkInit ==
    /\ walk \in {WalkStart(d) : d \in WalkDocuments}
    /\ WalkOthersIdle

WalkAtObject == walk.pc = "scan" /\ walk.obj_id <= Len(walk.doc.nodes)

WalkSkipObject ==
    /\ WalkAtObject
    /\ walk.doc.nodes[walk.obj_id].kind # "image"
    /\ walk' = WalkSkipStep(walk)
    /\ UNCHANGED <<seg, tab, fex, img, pipe, par, refs, crawl, search, trans>>

WalkFindPage ==
    /\ WalkAtObject
    /\ walk.doc.nodes[walk.obj_id].kind = "image"
    /\ walk' = WalkFindStep(walk)
    /\ UNCHANGED <<seg, tab, fex, img, pipe, par, refs, crawl, search, trans>>

WalkAtPage == walk.pc = "pages" /\ walk.page_num <= Len(walk.doc.pages)

WalkPageReferences ==
    {PageReferencesObject(walk.doc, walk.doc.pages[walk.page_num], walk.obj_id, 0)}

WalkNextPage ==
    /\ WalkAtPage
    /\ \E r \in WalkPageReferences :
          /\ ~r
          /\ walk' = WalkNextPageStep(walk)
    /\ UNCHANGED <<seg, tab, fex, img, pipe, par, refs, crawl, search, trans>>

WalkPageFound ==
    /\ WalkAtPage
    /\ \E r \in WalkPageReferences :
          /\ r
          /\ walk' = WalkPushStep(walk, walk.page_num)
    /\ UNCHANGED <<seg, tab, fex, img, pipe, par, refs, crawl, search, trans>>

WalkNoPage ==
    /\ walk.pc = "pages"
    /\ walk.page_num > Len(walk.doc.pages)
    /\ walk' = WalkPushStep(walk, 0)
    /\ UNCHANGED <<seg, tab, fex, img, pipe, par, refs, crawl, search, trans>>

WalkSort ==
    /\ walk.pc = "scan"
    /\ walk.obj_id > Len(walk.doc.nodes)
    /\ walk' = WalkSortStep(walk)
    /\ UNCHANGED <<seg, tab, fex, img, pipe, par, refs, crawl, search, trans>>

WalkNext ==
    \/ WalkSkipObject
    \/ WalkFindPage
    \/ WalkNextPage
    \/ WalkPageFound
    \/ WalkNoPage
    \/ WalkSort

SpecWalk == WalkInit /\ [][WalkNext]_vars

---------------------------------------------------------------------------
(* Claims about the page attribution *)

\* The ids the XObject dictionaries of the objects in S refer to.
XObjectRefs(doc, S) ==
    UNION {doc.nodes[s].xobjects[1] :
             s \in {x \in S : /\ x \in 1..Len(doc.nodes)
                              /\ doc.nodes[x].kind # "other"
                              /\ doc.nodes[x].xobjects # None}}

\* S and the Forms nested in it at most d deep.
RECURSIVE WithNestedForms(_, _, _)
WithNestedForms(doc, S, d) ==
    IF d = 0 THEN S
    ELSE S \cup WithNestedForms(doc,
                  {f \in XObjectRefs(doc, S) :
                      f \in 1..Len(doc.nodes) /\ doc.nodes[f].kind = "form"},
                  d - 1)

\* The page refers to target directly or through at most d nested Forms.
ReachesThroughForms(doc, page_id, target, d) ==
    target \in XObjectRefs(doc, WithNestedForms(doc, {page_id}, d))

\* The number of the first page that does, 0 when none does.
FirstPageReaching(doc, target, d) ==
    LET hits == {n \in 1..Len(doc.pages) :
                   ReachesThroughForms(doc, doc.pages[n], target, d)}
    IN  IF hits = {} THEN 0 ELSE SetMin(hits)

\* Every image of the document is listed once, with the page
\* FirstPageReaching gives for nesting depth d, in page order.
ImagesAttributed(d) ==
    walk.pc = "done"
      => /\ {walk.image_ids[k].obj_id : k \in 1..Len(walk.image_ids)}
              = {o \in 1..Len(walk.doc.nodes) : walk.doc.nodes[o].kind = "image"}
         /\ \A j, k \in 1..Len(walk.image_ids) :
               j < k => /\ walk.image_ids[j].obj_id # walk.image_ids[k].obj_id
                        /\ walk.image_ids[j].page <= walk.image_ids[k].page
         /\ \A k \in 1..Len(walk.image_ids) :
               walk.image_ids[k].page
                 = FirstPageReaching(walk.doc, walk.image_ids[k].obj_id, d)

\* C13 as stated: each image is attributed to the first page, in page order,
\* whose XObject dictionary refers to it directly or through nested Forms,
\* however deep, and to 0 when there is none; the list is in page order.
C13_AttributedThroughAnyNesting == ImagesAttributed(Len(walk.doc.nodes))

\* C13: each image is attributed to the first page, in page order, whose
\* XObject dictionary refers to it directly or through at most three nested
\* Forms, and to 0 when there is none; the list is in page order.
C13_AttributedThroughThreeForms == ImagesAttributed(MaxWalkDepth)

\* The image with the higher id is reached from page 1 through the Form only,
\* the other one from page 2, and the sort has put them in page order.
C13_Witness ==
    /\ walk.pc = "done"
    /\ walk.doc.pages = <<1, 2>>
    /\ walk.doc.nodes[1].xobjects = Some({3})
    /\ walk.image_ids = <<[obj_id |-> 5, page |-> 1], [obj_id |-> 4, page |-> 2]>>

---------------------------------------------------------------------------
(* Claims about the length filter of the formula detector *)

\* The trimmed text of the match the inner loop has just handled.
FexLastRaw == Trim(ByteSlice(fex.text, fex.mat_start, fex.mat_end)[1])

\* C14: the raw string of every returned Formula is trimmed and has 4 to 500
\* characters, counted as characters and not as bytes, and a match that is not
\* a duplicate is rejected for its length only when its character count is
\* outside 4..500.
C14_RawLengthCountedInCharacters ==
    /\ \A k \in 1..Len(fex.formulas) :
          /\ fex.formulas[k].raw = Trim(fex.formulas[k].raw)
          /\ Len(fex.formulas[k].raw) >= MinRawLen
          /\ Len(fex.formulas[k].raw) <= MaxRawLen
    /\ (fex.pc = "loop" /\ fex.last = "length")
         => (Len(FexLastRaw) < MinRawLen \/ Len(FexLastRaw) > MaxRawLen)

---------------------------------------------------------------------------
(* Claims about the levels, the bodies and the headings of the sections *)

\* C15: every Section has level 1 or 2: 2 when its heading has the form
\* "<int>.<int> Title", 1 when it has the form "<int>. Title" or "<int> Title"
\* or is a known section name; no Section has another level.
C15_SectionLevelOneOrTwo ==
    \A k \in 1..Len(seg.sections) :
       /\ seg.sections[k].level \in {1, 2}
       /\ seg.sections[k].level = 2 <=> MatchesSubNumbered(seg.sections[k].heading)
       /\ seg.sections[k].level = 1
            <=> (MatchesNumbered(seg.sections[k].heading)
                   \/ MatchesKnownName(seg.sections[k].heading))


\* A line that is neither blank nor a heading is appended, trimmed, to the
\* current body, after a single space when the body is not empty; nothing else
\* changes.
BodyLineAppended ==
    (SegInLoop /\ SegCurrentLine # <<>> /\ HeadingLevel(SegCurrentLine) = 0)
      => /\ seg'.current_body
              = IF seg.current_body = <<>> THEN SegCurrentLine
                ELSE seg.current_body \o <<" ">> \o SegCurrentLine
         /\ seg'.sections = seg.sections
         /\ seg'.current_heading = seg.current_heading
         /\ seg'.current_level = seg.current_level

\* A blank line pushes no Section and leaves heading and level alone; it adds a
\* line break to a body that is not empty, and nothing to an empty one.
BlankLineOnlyBreaks ==
    (SegInLoop /\ SegCurrentLine = <<>>)
      => /\ seg'.sections = seg.sections
         /\ seg'.current_heading = seg.current_heading
         /\ seg'.current_level = seg.current_level
         /\ seg'.current_body
              = IF seg.current_body = <<>> THEN <<>>
                ELSE Append(seg.current_body, "\n")

\* The breaks of a pushed body lie between its lines: the body is trimmed.
BodiesTrimmed ==
    \A k \in 1..Len(seg.sections) :
       seg.sections[k].body = Trim(seg.sections[k].body)

\* C17: a line that is neither a heading nor blank is appended, trimmed, to the
\* current body after a single space; a blank line never pushes a Section and
\* never changes the current heading or level, it only leaves a paragraph
\* break between the body lines around it.
C17_BlankLinesOnlyBreakParagraphs ==
    /\ [][BodyLineAppended /\ BlankLineOnlyBreaks]_vars
    /\ []BodiesTrimmed

\* A section whose body is two lines with a blank line between them.
C17_Witness ==
    /\ seg.pc = "done"
    /\ seg.lines = << <<"x","y">>, <<>>, <<"x","y">> >>
    /\ Len(seg.sections) = 1
    /\ seg.sections[1].body = <<"x","y","\n"," ","x","y">>


\* C18: no Section has an empty heading.  Non-blank text before the first
\* heading gives one leading Section with the heading "(untitled)"; only the
\* first Section can have that heading, and it has it exactly when such text
\* exists; nothing is pushed while heading and body are both empty, so a text
\* of blank lines only gives no Section.
C18_NoEmptyHeading ==
    /\ \A k \in 1..Len(seg.sections) :
          /\ seg.sections[k].heading # <<>>
          /\ seg.sections[k].heading = S_untitled
               => k = 1 /\ seg.sections[k].body # <<>>
    /\ seg.pc = "done"
         => /\ SegLeadingText(Len(seg.lines))
                 <=> (seg.sections # <<>> /\ seg.sections[1].heading = S_untitled)
            /\ (\A n \in 1..Len(seg.lines) : Trim(seg.lines[n]) = <<>>)
                 => seg.sections = <<>>

\* A finished run over a blank line, a body line and a heading: the body line
\* is the one untitled Section, before the Section of the heading.
C18_Witness ==
    /\ seg.pc = "done"
    /\ seg.lines = << <<" ","\t">>, <<"x","y">>, <<"1","."," ","A","b">> >>
    /\ Len(seg.sections) = 2
    /\ seg.sections[1] = [heading |-> S_untitled, level |-> 0, body |-> <<"x","y">>]

\* A finished run over blank lines only has no Section.
C18_BlankTextReached ==
    /\ seg.pc = "done"
    /\ seg.lines = << <<>>, <<" ","\t">> >>
    /\ seg.sections = <<>>

---------------------------------------------------------------------------
(* Claims about the row collection of the table detector *)

TabBlankAt(k) == k \in 1..Len(tab.lines) /\ Trim(tab.lines[k]) = <<>>

TabCaptionAt(k) == k \in 1..Len(tab.lines) /\ IsTableCaption(Trim(tab.lines[k]))

\* The trimmed non-blank lines among the lines a..b, in order.
TabNonBlankLines(a, b) ==
    LET ks == SortedSeq({k \in a..b : ~TabBlankAt(k)})
    IN  [j \in 1..Len(ks) |-> Trim(tab.lines[ks[j]])]

\* The first line after the caption at line c that is not blank (the line
\* after the last one when there is none).
CaptionRowsStart(c) ==
    SetMin({k \in (c + 1)..(Len(tab.lines) + 1) : ~TabBlankAt(k)})

\* Where the collection after the caption at line c ends: at the second of two
\* consecutive blank lines, at the next caption line, or after the last line.
CaptionRowsStop(c) ==
    SetMin({k \in CaptionRowsStart(c)..(Len(tab.lines) + 1) :
              \/ k = Len(tab.lines) + 1
              \/ TabBlankAt(k) /\ TabBlankAt(k - 1)
              \/ TabCaptionAt(k)})

C19_SingleRowReached ==
    /\ tab.pc = "done"
    /\ tab.lines = <<L_Table1, L_blank, L_ab_cd>>
    /\ tab.tables = <<>>


TabRowAt(k) ==
    k \in 1..Len(tab.lines) /\ ~TabBlankAt(k) /\ LooksLikeTableRow(Trim(tab.lines[k]))

\* Where the run that starts at line c ends: at the first non-blank line that
\* does not look like a row, at the second of two consecutive blank lines, or
\* after the last line.
BlockRowsStop(c) ==
    SetMin({k \in c..(Len(tab.lines) + 1) :
              \/ k = Len(tab.lines) + 1
              \/ TabBlankAt(k) /\ TabBlankAt(k - 1)
              \/ ~TabBlankAt(k) /\ ~TabRowAt(k)})

\* C20: a Table without caption comes only from a run of at least 3 lines that
\* each look like a row, consecutive rows being separated by at most one blank
\* line; the run ends at the first non-blank line that does not look like a
\* row or at two consecutive blank lines (or with the text), and a run of 1
\* or 2 such lines gives no table.
C20_UncaptionedNeedsThreeRows ==
    [][ TabBlock =>
          /\ tab'.i = BlockRowsStop(tab.i)
          /\ tab'.raw_rows = TabNonBlankLines(tab.i, BlockRowsStop(tab.i) - 1)
          /\ \A k \in tab.i..(BlockRowsStop(tab.i) - 1) : TabBlankAt(k) \/ TabRowAt(k)
          /\ Len(tab'.raw_rows) < UncaptionedMinRows => tab'.tables = tab.tables
          /\ tab'.tables # tab.tables
               => /\ Len(tab'.raw_rows) >= UncaptionedMinRows
                  /\ tab'.tables
                       = Append(tab.tables, tab'.tables[Len(tab'.tables)])
                  /\ tab'.tables[Len(tab'.tables)].caption = None
      ]_vars

\* Three rows with single blank lines between them, ended by a line that does
\* not look like a row, have given a table without caption.
C20_Witness ==
    /\ tab.lines = <<L_ab_cd, L_blank, L_a_b_c, L_blank, L_tabbed, L_abcde>>
    /\ tab.branch = "uncaptioned"
    /\ tab.i = 6
    /\ Len(tab.raw_rows) = 3
    /\ Len(tab.tables) = 1
    /\ tab.tables[1].caption = None

\* A run of two rows, ended after a blank line by a line that does not look
\* like a row, has given no table.
C20_TwoRowsReached ==
    /\ tab.lines = <<L_ab_cd, L_a_b_c, L_blank, L_abcde>>
    /\ tab.branch = "uncaptioned"
    /\ Len(tab.raw_rows) = 2
    /\ tab.tables = <<>>

---------------------------------------------------------------------------
(* Two calls of ExtractionPipeline::process in parallel.  The structs hold  *)
(* no mutable state (mod.rs:70-75): the calls meet only on the disk, in     *)
(* create_dir_all and in the writes of the image files.                     *)

\* The directories create_dir_all(path) makes sure exist: path and the
\* prefixes of path that end before a "/".
PathAncestors(path) ==
    {SubSeq(path, 1, k - 1) : k \in {j \in 2..Len(path) : path[j] = "/"}}
      \cup {path}

\* The directory a file name lies in: what precedes its last "/".
ParentDir(filename) ==
    SubSeq(filename, 1, SetMax({j \in 1..Len(filename) : filename[j] = "/"}) - 1)

\* The disk: the directories that exist and, for every image file written,
\* its name and the call that wrote it.
Disk(dirs, writes) == [dirs |-> dirs, writes |-> writes]

\* A call process(pdf_path, paper_id, images_dir) for the input paper: p are
\* the locals of process, m those of extract_images.
InvStart(paper, paper_id, images_dir) ==
    [paper_id |-> paper_id, images_dir |-> images_dir,
     p |-> PipeStart(paper, 1, "k1", None),
     m |-> ImgStart(paper.objects, paper.build, paper_id, images_dir)]

\* The formula stage of the call whose locals are p.
InvFormulasStep(p) ==
    PipeFormulasStep(p, FormulaExtract(p.full_text, p.paper.log_debug, p.random_state))

\* The stages of process after the text extraction has left p.
InvAfterText(p) ==
    IF p.pc = "err" THEN p ELSE InvFormulasStep(PipeStructureStep(p))

\* The stages before the image extractor, which read the text only.
InvTextStagesStep(inv) == [inv EXCEPT !.p = InvAfterText(PipeTextStep(inv.p))]

\* The setup of extract_images has left m: an Err ends the image stage.
InvAfterSetup(inv, disk, m) ==
    [inv |-> [inv EXCEPT !.m = m,
                         !.p = IF m.pc = "err" THEN PipeImagesStep(inv.p, m)
                               ELSE inv.p],
     disk |-> IF m.dir_created
              THEN Disk(disk.dirs \cup PathAncestors(inv.images_dir), disk.writes)
              ELSE disk]

\* extract_images up to its loop: create_dir_all makes the directories.
InvImagesSetupStep(inv, disk) ==
    InvAfterSetup(inv, disk, ImgSetupStep(inv.m, ImageSetup(inv.p.paper.env)))

\* The candidate the loop is at, as the disk lets it be written: fs::write and
\* save fail when the directory of the file name does not exist.
InvCandidate(inv, disk) ==
    [ImgCandidate(inv.m) EXCEPT !.write_ok =
        @ /\ ParentDir(ImageFileName(inv.images_dir, inv.paper_id,
                                     inv.m.img_index, Ext_png)) \in disk.dirs]

\* An iteration of the loop has left m: the file of a pushed image is on the
\* disk, written by the call number k.
InvAfterCandidate(inv, disk, k, m) ==
    [inv |-> [inv EXCEPT !.m = m,
                         !.p = IF m.pc = "panic" THEN PipeImagesStep(inv.p, m)
                               ELSE inv.p],
     disk |-> IF m.last.kind = "pushed"
              THEN Disk(disk.dirs,
                        disk.writes \cup {[path |-> m.images[Len(m.images)].filename,
                                           by |-> k]})
              ELSE disk]

\* One iteration of the loop of extract_images, by the call number k.
InvCandidateStep(inv, disk, k) ==
    InvAfterCandidate(inv, disk, k,
        ImgOutcomeStep(inv.m, CandidateOutcome(InvCandidate(inv, disk), inv.m.build)))

\* Ok(images), and the match in process.
InvImagesFinishStep(inv) ==
    [inv EXCEPT !.m = ImgFinishStep(inv.m),
                !.p = PipeImagesStep(inv.p, ImgFinishStep(inv.m))]

\* The table stage and Ok(PaperContent { .. }).
InvTablesStep(inv) == [inv EXCEPT !.p = PipeTablesStep(inv.p)]

InvEnded(inv) == inv.p.pc \in {"ok", "err", "panic"}

\* The next step of the call number k on the disk.
InvStep(inv, disk, k) ==
    IF inv.p.pc = "text" THEN [inv |-> InvTextStagesStep(inv), disk |-> disk]
    ELSE IF inv.p.pc = "images" /\ inv.m.pc = "start"
         THEN InvImagesSetupStep(inv, disk)
    ELSE IF inv.p.pc = "images" /\ inv.m.i <= Len(inv.m.image_ids)
         THEN InvCandidateStep(inv, disk, k)
    ELSE IF inv.p.pc = "images" THEN [inv |-> InvImagesFinishStep(inv), disk |-> disk]
    ELSE IF inv.p.pc = "tables" THEN [inv |-> InvTablesStep(inv), disk |-> disk]
    ELSE [inv |-> inv, disk |-> disk]

\* The call runs to its end with no other call beside it.
RECURSIVE InvRun(_)
InvRun(r) ==
    IF InvEnded(r.inv) THEN r.inv ELSE InvRun(InvStep(r.inv, r.disk, 1))

\* What process returns for the call when it runs alone on an empty disk.
InvAlone(paper, paper_id, images_dir) ==
    PipeOutcome(InvRun([inv |-> InvStart(paper, paper_id, images_dir),
                        disk |-> Disk({}, {})]).p)


\* The output directories and the paper identifiers of the calls.  The callers
\* pass identifiers without "/": arxiv_id.replace("/", "_") (main.rs:229) and
\* the file stem of the PDF (main.rs:468-474).  One identifier continues
\* another with the suffix of a file name.
Dir_out_a == <<"o", "u", "t", "/", "a">>
Id_b == <<"b">>
Id_c == <<"c">>
Id_b_img_1 == <<"b", "_", "i", "m", "g", "_", "1">>
ParDirs == {ImagesDir, Dir_out_a}
ParIds == {Id_b, Id_c, Id_b_img_1}
ParDocuments == {<<K_jpeg>>, <<K_jpeg, K_flate_rgb>>, <<K_flate_short, K_jpeg>>}

\* The text of the papers: a caption and two rows.
ParText == Join(<<F_Table1, F_row_ab, F_row_cd>>, <<"\n">>)

\* The calls: each with its document, its identifier and its directory, on one
\* build.
ParCalls(build) ==
    {[paper |-> Paper(ParText, d, EnvOk, build, FALSE), paper_id |-> id,
      images_dir |-> dir] : d \in ParDocuments, id \in ParIds, dir \in ParDirs}

ParOthersIdle == seg = Idle /\ tab = Idle /\ fex = Idle /\ img = Idle /\ pipe = Idle /\ walk = Idle /\ refs = Idle /\ crawl = Idle /\ search = Idle /\ trans = Idle

\* Two calls are started on an empty disk; alone is what each returns when it
\* runs without the other.
ParInit ==
    /\ \E build \in Builds : \E c1 \in ParCalls(build), c2 \in ParCalls(build) :
          par = [pc |-> "run",
                 inv |-> <<InvStart(c1.paper, c1.paper_id, c1.images_dir),
                           InvStart(c2.paper, c2.paper_id, c2.images_dir)>>,
                 disk |-> Disk({}, {}),
                 alone |-> <<InvAlone(c1.paper, c1.paper_id, c1.images_dir),
                             InvAlone(c2.paper, c2.paper_id, c2.images_dir)>>]
    /\ ParOthersIdle

ParTextStages(k) ==
    /\ par.pc = "run"
    /\ par.inv[k].p.pc = "text"
    /\ par' = [par EXCEPT !.inv[k] = InvTextStagesStep(par.inv[k])]
    /\ UNCHANGED <<seg, tab, fex, img, pipe, walk, refs, crawl, search, trans>>

ParImagesSetup(k) ==
    /\ par.pc = "run"
    /\ par.inv[k].p.pc = "images"
    /\ par.inv[k].m.pc = "start"
    /\ \E r \in {InvImagesSetupStep(par.inv[k], par.disk)} :
          par' = [par EXCEPT !.inv[k] = r.inv, !.disk = r.disk]
    /\ UNCHANGED <<seg, tab, fex, img, pipe, walk, refs, crawl, search, trans>>

ParCandidate(k) ==
    /\ par.pc = "run"
    /\ par.inv[k].p.pc = "images"
    /\ par.inv[k].m.pc = "loop"
    /\ par.inv[k].m.i <= Len(par.inv[k].m.image_ids)
    /\ \E r \in {InvCandidateStep(par.inv[k], par.disk, k)} :
          par' = [par EXCEPT !.inv[k] = r.inv, !.disk = r.disk]
    /\ UNCHANGED <<seg, tab, fex, img, pipe, walk, refs, crawl, search, trans>>

ParImagesFinish(k) ==
    /\ par.pc = "run"
    /\ par.inv[k].p.pc = "images"
    /\ par.inv[k].m.pc = "loop"
    /\ par.inv[k].m.i > Len(par.inv[k].m.image_ids)
    /\ par' = [par EXCEPT !.inv[k] = InvImagesFinishStep(par.inv[k])]
    /\ UNCHANGED <<seg, tab, fex, img, pipe, walk, refs, crawl, search, trans>>

ParTables(k) ==
    /\ par.pc = "run"
    /\ par.inv[k].p.pc = "tables"
    /\ par' = [par EXCEPT !.inv[k] = InvTablesStep(par.inv[k])]
    /\ UNCHANGED <<seg, tab, fex, img, pipe, walk, refs, crawl, search, trans>>

ParNext ==
    \E k \in 1..2 :
        \/ ParTextStages(k)
        \/ ParImagesSetup(k)
        \/ ParCandidate(k)
        \/ ParImagesFinish(k)
        \/ ParTables(k)

SpecPar == ParInit /\ [][ParNext]_vars


---------------------------------------------------------------------------
(* Claims about concurrent calls of process.                               *)

ParRunning == par.pc = "run"

\* No image file has been written by both calls.
NoFileWrittenTwice ==
    \A w1 \in par.disk.writes : \A w2 \in par.disk.writes :
        w1.path = w2.path => w1.by = w2.by

\* Every call that has ended returns what it returns when it runs alone.
ReturnsAsAlone ==
    \A k \in 1..2 :
        InvEnded(par.inv[k]) => PipeOutcome(par.inv[k].p) = par.alone[k]

SamePaperId == par.inv[1].paper_id = par.inv[2].paper_id
SameImagesDir == par.inv[1].images_dir = par.inv[2].images_dir

\* C16: under every interleaving, two concurrent calls of process with
\* different paper identifiers never write the same image file, each call
\* returns the PaperContent it returns when it runs alone, and a file is
\* written by both calls only when they have the same identifier and the same
\* output directory.
C16_DifferentIdsDoNotInterfere ==
    ParRunning =>
        /\ ~SamePaperId => NoFileWrittenTwice
        /\ ReturnsAsAlone
        /\ ~NoFileWrittenTwice => (SamePaperId /\ SameImagesDir)

\* Both calls have ended, with different identifiers for one directory, and
\* each has written two image files.
C16_Witness ==
    /\ ParRunning
    /\ ~SamePaperId /\ SameImagesDir
    /\ \A k \in 1..2 :
          /\ par.inv[k].p.pc = "ok"
          /\ Cardinality({w \in par.disk.writes : w.by = k}) = 2

\* Calls with the same identifier and the same directory have written the
\* same file name.
C16_SameIdSameDirCollides ==
    /\ ParRunning
    /\ SamePaperId /\ SameImagesDir
    /\ ~NoFileWrittenTwice

\* C21: a line matching the caption pattern "Table <N>" is never collected as
\* a header or data row of a table, whether the table being collected is
\* captioned or uncaptioned.
C21_CaptionLineNeverCollectedAsRow ==
    tab.pc # "idle" =>
        \A k \in 1..Len(tab.raw_rows) : ~IsTableCaption(tab.raw_rows[k])

\* The same for the rows collected under a caption alone.
C21_CaptionedRowsHoldNoCaption ==
    (tab.pc # "idle" /\ tab.branch = "captioned") =>
        \A k \in 1..Len(tab.raw_rows) : ~IsTableCaption(tab.raw_rows[k])

\* An uncaptioned table whose second row is the line "table 2  x" is returned.
C21_CaptionReturnedAsRow ==
    /\ tab.pc = "done"
    /\ tab.lines = <<L_ab_cd, L_Table2x, L_a_b_c>>
    /\ Len(tab.tables) = 1
    /\ tab.tables[1].caption = None
    /\ tab.tables[1].rows[1] = <<S_table \o <<" ", "2">>, <<"x">> >>


---------------------------------------------------------------------------
(* page_references_object step by step: the recursion as a stack of calls. *)

\* The components of the specifications above.
parts == <<seg, tab, fex, img, pipe, walk, par>>
PartsIdle == seg = Idle /\ tab = Idle /\ fex = Idle /\ img = Idle /\ pipe = Idle /\ walk = Idle /\ par = Idle

\* A call page_references_object(doc, id, target_id, depth): at "call" it has
\* just been entered, at "loop" it is in its loop over xobj_dict, of which todo
\* are the references still to come.
Frame(id, depth) == [id |-> id, depth |-> depth, pc |-> "call", todo |-> {}]

\* find_page_for_object calls page_references_object(doc, page_id, target_id, 0).
\* ret is the value a call has just returned to the call below it on the
\* stack, calls counts the calls made.
RefsStart(doc, page_id, target_id) ==
    [pc |-> "run", doc |-> doc, page_id |-> page_id, target_id |-> target_id,
     stack |-> <<Frame(page_id, 0)>>, ret |-> None, result |-> None, calls |-> 1]

RefsTop(r) == r.stack[Len(r.stack)]

MutRefsTooDeepAtFive(f) == f.depth > MaxWalkDepth + 1

\* if depth > 3 { return false; }
RefsTooDeep(f) == f.depth > MaxWalkDepth

\* get_object, as_dict / as_stream or get_xobjects_from_dict gives nothing.
RefsNoXObjects(doc, f) ==
    \/ f.id \notin 1..Len(doc.nodes)
    \/ doc.nodes[f.id].kind = "other"
    \/ doc.nodes[f.id].xobjects = None

\* ref_id is a stream whose Subtype is Form.
RefsIsForm(doc, ref_id) ==
    ref_id \in 1..Len(doc.nodes) /\ doc.nodes[ref_id].kind = "form"

\* return value: the call on top of the stack ends; the value goes to the call
\* below it, or to find_page_for_object.
RefsReturnStep(r, value) ==
    IF Len(r.stack) = 1
    THEN [r EXCEPT !.pc = "done", !.stack = <<>>, !.result = Some(value)]
    ELSE [r EXCEPT !.stack = SubSeq(r.stack, 1, Len(r.stack) - 1),
                   !.ret = Some(value)]

\* The call reaches its loop over xobj_dict.
RefsEnterStep(r) ==
    [r EXCEPT !.stack[Len(r.stack)].pc = "loop",
              !.stack[Len(r.stack)].todo = r.doc.nodes[RefsTop(r).id].xobjects[1]]

\* The loop takes ref_id and goes on with the next reference.
RefsSkipRefStep(r, ref_id) ==
    [r EXCEPT !.stack[Len(r.stack)].todo = @ \ {ref_id}]

\* The loop takes the Form ref_id: page_references_object(doc, ref_id,
\* target_id, depth + 1) is called.
RefsDescendStep(r, ref_id) ==
    [r EXCEPT !.stack = Append(RefsSkipRefStep(r, ref_id).stack,
                               Frame(ref_id, RefsTop(r).depth + 1)),
              !.calls = r.calls + 1]

\* The call made in the loop has returned false: the loop goes on.
RefsSubNotFoundStep(r) == [r EXCEPT !.ret = None]

\* It has returned true: return true.
RefsSubFoundStep(r) == RefsReturnStep([r EXCEPT !.ret = None], TRUE)


\* A Form that refers to itself and to the image; two Forms that refer to
\* themselves, to each other and, the second, to the image.
SelfLoopGraph ==
    GraphDoc(<<Node("page", Some({2})), Node("form", Some({2, 3})),
               Node("image", None)>>, <<1>>)
TwoFormCycleGraph ==
    GraphDoc(<<Node("page", Some({2, 3})), Node("form", Some({2, 3})),
               Node("form", Some({2, 3, 4})), Node("image", None)>>, <<1>>)

RefsDocuments ==
    {d \in SmallGraphs : d.pages = <<1, 2>>}
      \cup {CycleGraph, DanglingGraph, SelfLoopGraph, TwoFormCycleGraph}
      \cup {ChainGraph(n, FALSE) : n \in 0..MaxChainForms}

\* The calls find_page_for_object makes: for a page of the document and an
\* Image stream.
RefsCalls ==
    UNION {{RefsStart(d, d.pages[n], t) :
               n \in 1..Len(d.pages),
               t \in {o \in 1..Len(d.nodes) : d.nodes[o].kind = "image"}} :
           d \in RefsDocuments}

RefsInit ==
    /\ refs \in RefsCalls
    /\ PartsIdle /\ crawl = Idle /\ search = Idle /\ trans = Idle

RefsAtCall == refs.pc = "run" /\ refs.ret = None /\ RefsTop(refs).pc = "call"
RefsAtLoop == refs.pc = "run" /\ refs.ret = None /\ RefsTop(refs).pc = "loop"
RefsAtReturn == refs.pc = "run" /\ refs.ret # None

RefsCallTooDeep ==
    /\ RefsAtCall
    /\ RefsTooDeep(RefsTop(refs))
    /\ refs' = RefsReturnStep(refs, FALSE)
    /\ UNCHANGED <<parts, crawl, search, trans>>

RefsCallNoXObjects ==
    /\ RefsAtCall
    /\ ~RefsTooDeep(RefsTop(refs))
    /\ RefsNoXObjects(refs.doc, RefsTop(refs))
    /\ refs' = RefsReturnStep(refs, FALSE)
    /\ UNCHANGED <<parts, crawl, search, trans>>

RefsEnter ==
    /\ RefsAtCall
    /\ ~RefsTooDeep(RefsTop(refs))
    /\ ~RefsNoXObjects(refs.doc, RefsTop(refs))
    /\ refs' = RefsEnterStep(refs)
    /\ UNCHANGED <<parts, crawl, search, trans>>

RefsRefIsTarget ==
    /\ RefsAtLoop
    /\ \E ref_id \in RefsTop(refs).todo :
          /\ ref_id = refs.target_id
          /\ refs' = RefsReturnStep(refs, TRUE)
    /\ UNCHANGED <<parts, crawl, search, trans>>

RefsDescend ==
    /\ RefsAtLoop
    /\ \E ref_id \in RefsTop(refs).todo :
          /\ ref_id # refs.target_id
          /\ RefsIsForm(refs.doc, ref_id)
          /\ refs' = RefsDescendStep(refs, ref_id)
    /\ UNCHANGED <<parts, crawl, search, trans>>

RefsSkipRef ==
    /\ RefsAtLoop
    /\ \E ref_id \in RefsTop(refs).todo :
          /\ ref_id # refs.target_id
          /\ ~RefsIsForm(refs.doc, ref_id)
          /\ refs' = RefsSkipRefStep(refs, ref_id)
    /\ UNCHANGED <<parts, crawl, search, trans>>

RefsLoopEnd ==
    /\ RefsAtLoop
    /\ RefsTop(refs).todo = {}
    /\ refs' = RefsReturnStep(refs, FALSE)
    /\ UNCHANGED <<parts, crawl, search, trans>>

RefsSubFound ==
    /\ RefsAtReturn
    /\ refs.ret = Some(TRUE)
    /\ refs' = RefsSubFoundStep(refs)
    /\ UNCHANGED <<parts, crawl, search, trans>>

RefsSubNotFound ==
    /\ RefsAtReturn
    /\ refs.ret = Some(FALSE)
    /\ refs' = RefsSubNotFoundStep(refs)
    /\ UNCHANGED <<parts, crawl, search, trans>>

RefsNext ==
    \/ RefsCallTooDeep
    \/ RefsCallNoXObjects
    \/ RefsEnter
    \/ RefsRefIsTarget
    \/ RefsDescend
    \/ RefsSkipRef
    \/ RefsLoopEnd
    \/ RefsSubFound
    \/ RefsSubNotFound

SpecRefs == RefsInit /\ [][RefsNext]_vars

\* The walk is a sequential computation: it takes its next step.
SpecRefsLive == SpecRefs /\ WF_vars(RefsNext)


---------------------------------------------------------------------------
(* Claims about the recursion of page_references_object.                   *)

\* The calls on the stack are nested one level each; a call that reads an
\* XObject dictionary is at most MaxWalkDepth Forms below the page, and a call
\* one level deeper returns at once.
RefsDepthBounded ==
    refs.pc = "run" =>
        \A k \in 1..Len(refs.stack) :
            /\ refs.stack[k].depth = k - 1
            /\ refs.stack[k].depth <= MaxWalkDepth + 1
            /\ refs.stack[k].pc = "loop" => refs.stack[k].depth <= MaxWalkDepth
            /\ k > 1 => RefsIsForm(refs.doc, refs.stack[k].id)

\* The walk answers true exactly for a target the page refers to directly or
\* through at most MaxWalkDepth nested Forms.
RefsResultWithinDepth ==
    refs.pc = "done" =>
        refs.result = Some(ReachesThroughForms(refs.doc, refs.page_id,
                                               refs.target_id, MaxWalkDepth))

\* C22: page_references_object terminates for every object graph, also with
\* Forms that refer to themselves or to each other in a cycle; the recursion
\* never reads more than 3 nested Form levels below the page, and an image
\* reachable only through deeper nesting is not matched.
C22_WalkTerminatesWithinDepth ==
    /\ <>(refs.pc = "done")
    /\ []RefsDepthBounded
    /\ []RefsResultWithinDepth

\* The walk over the two Forms that refer to each other has ended after five
\* calls, the last of them at depth 4, without a match.
C22_Witness ==
    /\ refs.pc = "done"
    /\ refs.doc = CycleGraph
    /\ refs.calls = MaxWalkDepth + 2
    /\ refs.result = Some(FALSE)

\* The image below four nested Forms is not matched.
C22_DeepImageNotMatched ==
    /\ refs.pc = "done"
    /\ refs.doc = ChainGraph(MaxWalkDepth + 1, FALSE)
    /\ refs.page_id = 1
    /\ refs.result = Some(FALSE)

\* The image below three nested Forms is.
C22_ThreeFormsMatched ==
    /\ refs.pc = "done"
    /\ refs.doc = ChainGraph(MaxWalkDepth, FALSE)
    /\ refs.page_id = 1
    /\ refs.result = Some(TRUE)


---------------------------------------------------------------------------
(* Claims about the bitmap paths of the image extractor.                   *)

\* c is an unfiltered candidate that is not tiny and whose ColorSpace is not
\* an Indexed array.
RawBitmapCandidate(c) ==
    /\ ~EntryBelow(c.width, MinImageSide)
    /\ ~EntryBelow(c.height, MinImageSide)
    /\ GetFilterName(c.filter) = None
    /\ ~(c.cs.kind = "array" /\ c.cs.name = "Indexed")

\* The FlateDecode stream with the entries of c whose decompressed bytes are
\* the bytes of c.
FlateTwin(c) == [c EXCEPT !.filter = F_Flate, !.decoded = Some(c.content_len)]

\* What the loop does with the FlateDecode twin of the candidate it has just
\* done.
FlateTwinOutcome == CandidateOutcome(FlateTwin(ImgLastCandidate), img.build)

\* C23: an unfiltered stream yields an image exactly when the FlateDecode
\* non-indexed stream with the same Width, Height, ColorSpace,
\* BitsPerComponent and pixel bytes does, and with the same format, for 1, 3
\* and 4 channels.
C23_RawAndFlatePathsAgree ==
    (ImgCandidateDone /\ RawBitmapCandidate(ImgLastCandidate))
      => /\ (img.last.kind = "pushed") <=> (FlateTwinOutcome.kind = "pushed")
         /\ img.last.format = FlateTwinOutcome.format

\* The same for the streams whose colour space has 1 or 3 channels.
C23_AgreeOnGrayAndRgb ==
    (/\ ImgCandidateDone /\ RawBitmapCandidate(ImgLastCandidate)
     /\ GetColorChannels(ImgLastCandidate.cs) \in {U32FromInt(1), U32FromInt(3)})
      => /\ (img.last.kind = "pushed") <=> (FlateTwinOutcome.kind = "pushed")
         /\ img.last.format = FlateTwinOutcome.format

\* An unfiltered RGB stream has given an image, as its twin does.
C23_RgbReached ==
    /\ ImgCandidateDone
    /\ ImgLastCandidate = K_raw_rgb
    /\ img.last.kind = "pushed"
    /\ FlateTwinOutcome.kind = "pushed"


\* c is a candidate of a bitmap path: a FlateDecode candidate without a
\* palette whose stream decompresses, or an unfiltered one.
BitmapCandidate(c) == FlateBitmapCandidate(c) \/ RawBitmapCandidate(c)

\* The bytes per channel value of the buffers the loop builds: GrayImage,
\* RgbImage and RgbaImage hold one u8 per channel.
BuiltBitDepth == 8

\* C24: for every BitsPerComponent b of a non-indexed stream, the bitmap that
\* is built has bit depth b per channel: no image is emitted whose pixel bytes
\* are interpreted at a depth different from b.
C24_BitmapDepthIsBitsPerComponent ==
    (/\ ImgCandidateDone /\ BitmapCandidate(ImgLastCandidate)
     /\ img.last.kind = "pushed")
      => DictU32(ImgLastCandidate.bits, DefaultBits) = U32FromInt(BuiltBitDepth)

\* A stream of BitsPerComponent 4 gives no image.
C24_FourBitsSkipped ==
    /\ ImgCandidateDone
    /\ ImgLastCandidate = K_flate_gray4
    /\ img.last = Skipped("from_raw")

\* A stream of BitsPerComponent 16 gives an image, built as 8-bit gray.
C24_SixteenBitsPushed ==
    /\ ImgCandidateDone
    /\ ImgLastCandidate = K_flate_gray16
    /\ img.last.kind = "pushed"


---------------------------------------------------------------------------
(* Claims about the palette path of the image extractor.                   *)

\* c is a FlateDecode candidate that is not tiny, whose ColorSpace is an
\* Indexed array with hival and lookup table, and whose stream decompresses.
IndexedCandidate(c) ==
    /\ ~EntryBelow(c.width, MinImageSide)
    /\ ~EntryBelow(c.height, MinImageSide)
    /\ GetFilterName(c.filter) = Some("FlateDecode")
    /\ c.cs.kind = "array" /\ c.cs.name = "Indexed"
    /\ c.cs.hival # None /\ c.cs.lookup # None
    /\ (c.decoded # None \/ c.inflated # None)

\* The channels of the base colour space of an Indexed array.
IndexedBaseChannels(c) == IF c.cs.base = "" THEN 3 ELSE ChannelsFromName(c.cs.base)

\* The lookup table holds (hival + 1) x channels bytes.
LookupCoversHival(c) == c.cs.lookup[1] >= (c.cs.hival[1] + 1) * IndexedBaseChannels(c)

\* One index byte per pixel is there: BitsPerComponent is 8 and the data holds
\* width x height bytes.
OneIndexBytePerPixel(c) ==
    /\ DictU32(c.bits, DefaultBits) = U32FromInt(8)
    /\ FromRawOk(DictU32(c.width, 0), DictU32(c.height, 0), U32FromInt(1),
                 FlateDataLen(c))

\* The bytes per pixel of the RgbImage the palette path builds.
IndexedImageChannels == 3

\* C25: a FlateDecode image with an Indexed colour space whose lookup table
\* holds at least (hival+1) x channels bytes is emitted as PNG, each pixel
\* being the channels bytes of a lookup entry, for a base colour space of 1, 3
\* or 4 channels; with a smaller lookup table the palette decode is not
\* applied.
C25_IndexedImageEmittedFromLookup ==
    (ImgCandidateDone /\ IndexedCandidate(ImgLastCandidate))
      => /\ (/\ LookupCoversHival(ImgLastCandidate)
             /\ OneIndexBytePerPixel(ImgLastCandidate)
             /\ ImgLastCandidate.write_ok)
              => /\ img.last = Pushed("save indexed", "png", "png")
                 /\ IndexedBaseChannels(ImgLastCandidate) = IndexedImageChannels
         /\ ~LookupCoversHival(ImgLastCandidate)
              => img.last.at # "save indexed"

\* The same for a base colour space of 3 channels.
C25_RgbBaseEmitted ==
    (/\ ImgCandidateDone /\ IndexedCandidate(ImgLastCandidate)
     /\ IndexedBaseChannels(ImgLastCandidate) = IndexedImageChannels)
      => /\ (/\ LookupCoversHival(ImgLastCandidate)
             /\ OneIndexBytePerPixel(ImgLastCandidate)
             /\ ImgLastCandidate.write_ok)
              => img.last = Pushed("save indexed", "png", "png")
         /\ ~LookupCoversHival(ImgLastCandidate)
              => img.last.at # "save indexed"

\* The palette image with a gray base is skipped for short data.
C25_GrayBaseSkipped ==
    /\ ImgCandidateDone
    /\ ImgLastCandidate = K_indexed_gray
    /\ img.last = Skipped("short data")

\* The palette image with a CMYK base is saved as RGB.
C25_CmykBaseSavedAsRgb ==
    /\ ImgCandidateDone
    /\ ImgLastCandidate = K_indexed_cmyk
    /\ img.last = Pushed("save indexed", "png", "png")


\* bytes_per_row = (width * bits + 7) / 8 of the candidate c, as the code
\* computes it.
IndexedBytesPerRow(c) ==
    U32Div8(U32Add(U32Mul(DictU32(c.width, 0), DictU32(c.bits, DefaultBits)).value,
                   U32FromInt(7)).value)

\* The candidate passes the checks in front of the decode loop: the lookup
\* table covers hival and data.len() >= bytes_per_row * height.
PassesIndexedChecks(c) ==
    /\ LookupCoversHival(c)
    /\ ~LessThanProduct(FlateDataLen(c), IndexedBytesPerRow(c), DictU32(c.height, 0))

\* pixel_count = width * height, the number of reads data[i] of the loop.
IndexedPixelCount(c) == U32Product(<<DictU32(c.width, 0), DictU32(c.height, 0)>>)

\* C26: in the Indexed decode every read data[i] is at an offset below the
\* data length, for every width, height and BitsPerComponent that pass the
\* data-length check, also for BitsPerComponent below 8: the decode does not
\* abort the extraction.
C26_IndexedReadsStayInData ==
    (/\ ImgCandidateDone /\ IndexedCandidate(ImgLastCandidate)
     /\ PassesIndexedChecks(ImgLastCandidate)
     /\ ~IndexedPixelCount(ImgLastCandidate).overflow)
      => /\ U32Below(IndexedPixelCount(ImgLastCandidate).value,
                     FlateDataLen(ImgLastCandidate) + 1)
         /\ img.last.kind # "panic"
         /\ img.pc # "panic"

\* The same for BitsPerComponent 8.
C26_EightBitReadsStayInData ==
    (/\ ImgCandidateDone /\ IndexedCandidate(ImgLastCandidate)
     /\ PassesIndexedChecks(ImgLastCandidate)
     /\ ~IndexedPixelCount(ImgLastCandidate).overflow
     /\ DictU32(ImgLastCandidate.bits, DefaultBits) = U32FromInt(8))
      => /\ U32Below(IndexedPixelCount(ImgLastCandidate).value,
                     FlateDataLen(ImgLastCandidate) + 1)
         /\ img.last.kind # "panic"
         /\ img.pc # "panic"

\* The 4-bit palette image of 10x10 with 50 bytes of data has ended the call
\* in a panic, in the release build too.
C26_PackedIndicesPanic ==
    /\ img.pc = "panic"
    /\ img.build = "release"
    /\ ImgLastCandidate = K_indexed_4bit
    /\ img.last = Panicked("try_decode_indexed")


---------------------------------------------------------------------------
(* Claims about the outer loop of the table detector.                      *)

\* The iteration has moved the line index forward, within the text.
TabIndexAdvances ==
    /\ tab'.lines = tab.lines
    /\ tab'.i > tab.i
    /\ tab'.i <= Len(tab.lines) + 1

\* The rows the iteration has collected are the non-blank lines it has passed
\* (after the caption line, when it started at one).
TabRowsFromLinesPassed ==
    tab'.raw_rows =
        IF tab'.branch = "none" THEN <<>>
        ELSE TabNonBlankLines(IF tab'.branch = "captioned" THEN tab.i + 1 ELSE tab.i,
                              tab'.i - 1)

\* The tables are as before, or one table made of the rows collected is
\* appended to them.
TabAppendsFromRows ==
    \/ tab'.tables = tab.tables
    \/ /\ tab'.tables = Append(tab.tables, tab'.tables[Len(tab'.tables)])
       /\ tab'.tables[Len(tab'.tables)].headers = SplitCells(tab'.raw_rows[1])
       /\ tab'.tables[Len(tab'.tables)].rows
            = [k \in 1..(Len(tab'.raw_rows) - 1) |-> SplitCells(tab'.raw_rows[k + 1])]
       /\ tab'.tables[Len(tab'.tables)].caption \in {None, Some(TabCurrentLine)}

\* C27: TableParser::extract terminates on every text; each iteration of its
\* outer loop strictly increases the line index, and a table it appends is
\* made of lines that iteration has passed, so that the tables are returned in
\* document order and no line is used by two of them.
C27_ExtractTerminatesInOnePass ==
    /\ <>(tab.pc = "done")
    /\ [][ (tab.pc = "loop" /\ tab'.pc = "loop")
             => (TabIndexAdvances /\ TabRowsFromLinesPassed /\ TabAppendsFromRows)
         ]_vars
    /\ [][ tab'.pc = "done" => (tab.i > Len(tab.lines) /\ tab'.tables = tab.tables)
         ]_vars

\* The text with a captioned table, two blank lines and a block of three rows
\* has given the two tables, in that order.
C27_Witness ==
    /\ tab.pc = "done"
    /\ tab.lines = <<L_Table1, L_ab_cd, L_x_y, L_blank, L_blank, L_ab_cd, L_a_b_c, L_tabbed>>
    /\ Len(tab.tables) = 2
    /\ tab.tables[1].caption = Some(L_Table1)
    /\ tab.tables[2].caption = None


----------------------------------------------------------------------------
(* crawl_command: the papers of one subscription, one await per action.     *)

\* papers.iter().take(3): the papers of a search result that are handled.
TakePapers == 3

\* Most papers a search result holds in the model, one more than are taken.
MaxFound == 4

\* A row of the papers table as save_paper inserts it.
PaperRow(processed) == [processed |-> processed, pdf_path |-> FALSE, translated |-> FALSE]

\* The state of crawl_command in front of its loop over the papers found:
\* found papers with arxiv ids 1..found, db the papers table by arxiv id,
\* content the papers with a row in extracted_content; downloaded, extracted,
\* saved and failed are the papers for which download_pdf, process and
\* save_extracted_content returned Ok, or one of them Err, in this run.
CrawlStart(found, translation_enabled, db) == [pc |-> "for", found |-> found, k |-> 1, translation_enabled |-> translation_enabled, before |-> db, db |-> db, content |-> {id \in DOMAIN db : db[id] # None /\ db[id].processed}, downloaded |-> {}, extracted |-> {}, saved |-> {}, failed |-> {}, result |-> None]

\* An error propagated by `?` ends the command.
CrawlAbort(c) == [c EXCEPT !.pc = "done", !.result = Some("Err")]

\* `continue`, or the end of the loop body: the next paper.
CrawlContinue(c) == [c EXCEPT !.pc = "for", !.k = c.k + 1]

\* UPDATE papers SET processed = 1 of the paper id.
MarkPaperProcessed(db, id) == [db EXCEPT ![id] = IF db[id] = None THEN None ELSE [db[id] EXCEPT !.processed = TRUE]]

CrawlRuns == {CrawlStart(found, enabled, db) : found \in 1..MaxFound, enabled \in BOOLEAN, db \in [1..MaxFound -> {None, PaperRow(FALSE), PaperRow(TRUE)}]}

CrawlInit ==
    /\ crawl \in {c \in CrawlRuns : \A id \in 1..MaxFound : id > c.found => c.db[id] = None}
    /\ PartsIdle /\ refs = Idle /\ search = Idle /\ trans = Idle

\* The head of `for paper in papers.iter().take(3)`.
CrawlFor ==
    /\ crawl.pc = "for"
    /\ crawl' = IF crawl.k > crawl.found \/ crawl.k > TakePapers
                THEN [crawl EXCEPT !.pc = "done", !.result = Some("Ok")]
                ELSE [crawl EXCEPT !.pc = "paper_exists"]
    /\ UNCHANGED <<seg, tab, fex, img, pipe, walk, par, refs, search, trans>>

\* db.paper_exists(..).await?: a paper in the table is skipped.
CrawlPaperExists ==
    /\ crawl.pc = "paper_exists"
    /\ \E ok \in BOOLEAN :
         crawl' = IF ~ok THEN CrawlAbort(crawl)
                  ELSE IF crawl.db[crawl.k] # None THEN CrawlContinue(crawl)
                  ELSE [crawl EXCEPT !.pc = "save_paper"]
    /\ UNCHANGED <<seg, tab, fex, img, pipe, walk, par, refs, search, trans>>

\* db.save_paper(..).await?: the row is inserted with processed false.
CrawlSavePaper ==
    /\ crawl.pc = "save_paper"
    /\ \E ok \in BOOLEAN :
         crawl' = IF ~ok THEN CrawlAbort(crawl)
                  ELSE [crawl EXCEPT !.pc = "translate", !.db[crawl.k] = PaperRow(FALSE)]
    /\ UNCHANGED <<seg, tab, fex, img, pipe, walk, par, refs, search, trans>>

\* translate_paper and update_translation, when a translator is configured:
\* a failed translation is logged, a failed update ends the command.
CrawlTranslate ==
    /\ crawl.pc = "translate"
    /\ \E translated \in BOOLEAN, ok \in BOOLEAN :
         crawl' = IF ~crawl.translation_enabled \/ ~translated THEN [crawl EXCEPT !.pc = "download"]
                  ELSE IF ~ok THEN CrawlAbort(crawl)
                  ELSE [crawl EXCEPT !.pc = "download", !.db[crawl.k].translated = TRUE]
    /\ UNCHANGED <<seg, tab, fex, img, pipe, walk, par, refs, search, trans>>

\* crawler.download_pdf(..).await: a failed download is logged.
CrawlDownload ==
    /\ crawl.pc = "download"
    /\ \E ok \in BOOLEAN :
         crawl' = IF ok THEN [crawl EXCEPT !.pc = "update_pdf_path", !.downloaded = @ \cup {crawl.k}]
                  ELSE [crawl EXCEPT !.pc = "sleep", !.failed = @ \cup {crawl.k}]
    /\ UNCHANGED <<seg, tab, fex, img, pipe, walk, par, refs, search, trans>>

\* db.update_pdf_path(..).await?
CrawlUpdatePdfPath ==
    /\ crawl.pc = "update_pdf_path"
    /\ \E ok \in BOOLEAN :
         crawl' = IF ~ok THEN CrawlAbort(crawl)
                  ELSE [crawl EXCEPT !.pc = "process", !.db[crawl.k].pdf_path = TRUE]
    /\ UNCHANGED <<seg, tab, fex, img, pipe, walk, par, refs, search, trans>>

\* pipeline.process(..): a failed extraction is logged.
CrawlProcess ==
    /\ crawl.pc = "process"
    /\ \E ok \in BOOLEAN :
         crawl' = IF ok THEN [crawl EXCEPT !.pc = "save_extracted_content", !.extracted = @ \cup {crawl.k}]
                  ELSE [crawl EXCEPT !.pc = "sleep", !.failed = @ \cup {crawl.k}]
    /\ UNCHANGED <<seg, tab, fex, img, pipe, walk, par, refs, search, trans>>

\* if let Err(e) = db.save_extracted_content(..).await { info!(..) }: the
\* error is logged and the arm goes on.
CrawlSaveExtractedContent ==
    /\ crawl.pc = "save_extracted_content"
    /\ \E ok \in BOOLEAN :
         crawl' = IF ok THEN [crawl EXCEPT !.pc = "mark_paper_processed", !.content = @ \cup {crawl.k}, !.saved = @ \cup {crawl.k}]
                  ELSE [crawl EXCEPT !.pc = "mark_paper_processed", !.failed = @ \cup {crawl.k}]
    /\ UNCHANGED <<seg, tab, fex, img, pipe, walk, par, refs, search, trans>>

\* db.mark_paper_processed(..).await?
CrawlMarkPaperProcessed ==
    /\ crawl.pc = "mark_paper_processed"
    /\ \E ok \in BOOLEAN :
         crawl' = IF ~ok THEN CrawlAbort(crawl)
                  ELSE [crawl EXCEPT !.pc = "sleep", !.db = MarkPaperProcessed(crawl.db, crawl.k)]
    /\ UNCHANGED <<seg, tab, fex, img, pipe, walk, par, refs, search, trans>>

\* tokio::time::sleep(request_delay_ms).await at the end of the loop body.
CrawlSleep ==
    /\ crawl.pc = "sleep"
    /\ crawl' = CrawlContinue(crawl)
    /\ UNCHANGED <<seg, tab, fex, img, pipe, walk, par, refs, search, trans>>

CrawlNext ==
    \/ CrawlFor
    \/ CrawlPaperExists
    \/ CrawlSavePaper
    \/ CrawlTranslate
    \/ CrawlDownload
    \/ CrawlUpdatePdfPath
    \/ CrawlProcess
    \/ CrawlSaveExtractedContent
    \/ CrawlMarkPaperProcessed
    \/ CrawlSleep

SpecCrawl == CrawlInit /\ [][CrawlNext]_vars


----------------------------------------------------------------------------
(* Claims about crawl_command.                                              *)

CrawlRunning == crawl # Idle

\* The papers this run has marked processed.
CrawlMarked == {id \in 1..MaxFound : crawl.before[id] = None /\ crawl.db[id] # None /\ crawl.db[id].processed}

\* C28: a paper is marked processed only after its PDF was downloaded, the
\* pipeline returned a PaperContent for it and that content was saved to the
\* database; a paper whose download, extraction or content save failed is
\* left unprocessed.
C28_ProcessedOnlyAfterContentSaved ==
    CrawlRunning =>
      /\ CrawlMarked \subseteq (crawl.downloaded \cap crawl.extracted \cap crawl.saved)
      /\ CrawlMarked \subseteq crawl.content
      /\ CrawlMarked \cap crawl.failed = {}

\* What the code keeps: a paper is marked only after its download and its
\* extraction returned Ok, and a paper that was in the table is not touched.
C28_MarkedOnlyAfterDownloadAndExtraction ==
    CrawlRunning =>
      /\ CrawlMarked \subseteq (crawl.downloaded \cap crawl.extracted)
      /\ \A id \in 1..MaxFound : crawl.before[id] # None => crawl.db[id] = crawl.before[id]

\* The command has returned Ok with paper 1 marked processed although
\* save_extracted_content failed for it and extracted_content has no row.
C28_MarkedWithoutContent ==
    /\ CrawlRunning
    /\ crawl.result = Some("Ok")
    /\ 1 \in CrawlMarked
    /\ 1 \in crawl.failed
    /\ 1 \notin crawl.content


----------------------------------------------------------------------------
(* ArxivCrawler::search: the retry loop, one await per action.              *)

\* max_retries of ArxivCrawler::new.
MaxRetries == 3

\* Seconds of the delay before attempt 1 and of the backoff after attempt 1.
DelaySecs == 3
BackoffSecs == 30

\* Most <entry> blocks of a response body in the model.
MaxEntries == 2

\* The status codes the server answers with in the model.
Statuses == {200, 429, 500, 502, 503}

\* A response body as text().await returns it: whether it contains
\* "Rate exceeded", and for each <entry> block whether parse_entry finds its
\* id, title, summary and published tags.
Bodies == {[rate_exceeded |-> r, entries |-> e] : r \in BOOLEAN, e \in UNION {[1..n -> BOOLEAN] : n \in 0..MaxEntries}}

\* What the loop has done so far.
Slept(secs) == [kind |-> "sleep", secs |-> secs]
Requested(attempt) == [kind |-> "request", attempt |-> attempt]
Responded(attempt, status, body) == [kind |-> "response", attempt |-> attempt, status |-> status, body |-> body]

\* parse_arxiv_response: the entries parse_entry returns Some for, in order.
ParseArxivResponse(body) == SelectSeq(body.entries, LAMBDA well_formed : well_formed)

\* status 429, 502 or 503, or text.contains("Rate exceeded").
IsRateLimited(status, body) == status = 429 \/ status = 502 \/ status = 503 \/ body.rate_exceeded

\* search in front of `for attempt in 1..=self.max_retries`.
SearchStart == [pc |-> "for", attempt |-> 1, status |-> None, events |-> <<>>, result |-> None]

\* `continue`: the next attempt.
SearchContinue(s) == [s EXCEPT !.pc = "for", !.attempt = s.attempt + 1, !.status = None]

SearchInit ==
    /\ search = SearchStart
    /\ PartsIdle /\ refs = Idle /\ crawl = Idle /\ trans = Idle

\* The loop is over: Ok(vec![]).
SearchExhausted ==
    /\ search.pc = "for"
    /\ search.attempt > MaxRetries
    /\ search' = [search EXCEPT !.pc = "done", !.result = Some([ok |-> TRUE, papers |-> <<>>])]
    /\ UNCHANGED <<seg, tab, fex, img, pipe, walk, par, refs, crawl, trans>>

\* tokio::time::sleep(3 * attempt) in front of the request.
SearchDelay ==
    /\ search.pc = "for"
    /\ search.attempt <= MaxRetries
    /\ search' = [search EXCEPT !.pc = "send", !.events = Append(@, Slept(DelaySecs * search.attempt))]
    /\ UNCHANGED <<seg, tab, fex, img, pipe, walk, par, refs, crawl, trans>>

\* self.client.get(&url).send().await: a failed request is logged and the
\* loop continues, else the status of the response is known.
SearchSend ==
    /\ search.pc = "send"
    /\ \E sent \in {None} \cup {Some(st) : st \in Statuses} :
         LET s == [search EXCEPT !.events = Append(@, Requested(search.attempt))]
         IN  search' = IF sent = None THEN SearchContinue(s)
                       ELSE [s EXCEPT !.pc = "text", !.status = sent]
    /\ UNCHANGED <<seg, tab, fex, img, pipe, walk, par, refs, crawl, trans>>

\* response.text().await? and the branch on the response: an error of the
\* body propagates; a rate-limited response goes to the backoff before the
\* last attempt and continues at once after it; any other response returns
\* its parsed papers.
SearchText ==
    /\ search.pc = "text"
    /\ \E text \in {None} \cup {Some(b) : b \in Bodies} :
         LET s == [search EXCEPT !.events = Append(@, Responded(search.attempt, search.status[1], text))]
         IN  search' = IF text = None THEN [s EXCEPT !.pc = "done", !.result = Some([ok |-> FALSE, papers |-> <<>>])]
                       ELSE IF IsRateLimited(search.status[1], text[1])
                            THEN IF search.attempt < MaxRetries THEN [s EXCEPT !.pc = "backoff"] ELSE SearchContinue(s)
                       ELSE [s EXCEPT !.pc = "done", !.result = Some([ok |-> TRUE, papers |-> ParseArxivResponse(text[1])])]
    /\ UNCHANGED <<seg, tab, fex, img, pipe, walk, par, refs, crawl, trans>>

\* tokio::time::sleep(30 * attempt), then `continue`.
SearchBackoff ==
    /\ search.pc = "backoff"
    /\ search' = SearchContinue([search EXCEPT !.events = Append(@, Slept(BackoffSecs * search.attempt))])
    /\ UNCHANGED <<seg, tab, fex, img, pipe, walk, par, refs, crawl, trans>>

SearchNext ==
    \/ SearchExhausted
    \/ SearchDelay
    \/ SearchSend
    \/ SearchText
    \/ SearchBackoff

SpecSearch == SearchInit /\ [][SearchNext]_vars


----------------------------------------------------------------------------
(* Claims about the retry loop of ArxivCrawler::search.                     *)

SearchRunning == search # Idle

SearchEvents(kind) == {i \in 1..Len(search.events) : search.events[i].kind = kind}

\* The response event i is rate-limited or unavailable: by its status, or by
\* its body when the body was read.
SearchRateLimitedAt(i) ==
    LET e == search.events[i]
    IN  \/ e.status \in {429, 502, 503}
        \/ e.body # None /\ e.body[1].rate_exceeded

\* At most max_retries requests, and the wait of 3 x k seconds in front of
\* the request of attempt k.
SearchRequestsPaced ==
    /\ Cardinality(SearchEvents("request")) <= MaxRetries
    /\ \A i \in SearchEvents("request") :
         i > 1 /\ search.events[i - 1] = Slept(3 * search.events[i].attempt)

\* After the response event i, rate-limited on attempt k: for k < 3 the
\* backoff of 30 x k seconds and then the next attempt, for k = 3 no wait
\* and the end of the loop with an empty list.
SearchRetriesAfter(i) ==
    LET k == search.events[i].attempt
        n == Len(search.events)
    IN  IF k < MaxRetries
        THEN /\ i = n => search.pc = "backoff"
             /\ i < n => search.events[i + 1] = Slept(30 * k)
             /\ i + 1 = n => search.pc = "for" /\ search.attempt = k + 1
             /\ i + 1 < n => search.events[i + 2] = Slept(3 * (k + 1))
        ELSE /\ i = n
             /\ \/ search.pc = "for" /\ search.attempt > MaxRetries
                \/ search.pc = "done" /\ search.result = Some([ok |-> TRUE, papers |-> <<>>])

\* The response event i, not rate-limited, has ended the loop with its
\* parsed papers.
SearchReturnsAfter(i) ==
    /\ i = Len(search.events)
    /\ search.pc = "done"
    /\ search.events[i].body # None
    /\ search.result = Some([ok |-> TRUE, papers |-> ParseArxivResponse(search.events[i].body[1])])

\* With all attempts used up the result is an empty list, not an error.
SearchEmptyWhenExhausted ==
    (search.pc = "done" /\ search.attempt > MaxRetries)
      => search.result = Some([ok |-> TRUE, papers |-> <<>>])

\* C29: search sends at most max_retries (3) requests, waits 3 x k seconds
\* before attempt k, after a rate-limited or unavailable response (status
\* 429, 502 or 503, or a body containing "Rate exceeded") on attempt k < 3
\* waits a further 30 x k seconds and retries, with no backoff after the
\* final attempt; the first response that is not rate-limited ends the loop
\* with its parsed papers; with all attempts used up the result is an empty
\* list, not an error.
C29_SearchRetriesWithBackoff ==
    SearchRunning =>
      /\ SearchRequestsPaced
      /\ \A i \in SearchEvents("response") :
           IF SearchRateLimitedAt(i) THEN SearchRetriesAfter(i) ELSE SearchReturnsAfter(i)
      /\ SearchEmptyWhenExhausted

\* The same for the responses whose body was read; a response whose body
\* could not be read ends search with the error, whatever its status.
C29_RetriesWhenBodyWasRead ==
    SearchRunning =>
      /\ SearchRequestsPaced
      /\ \A i \in SearchEvents("response") :
           IF search.events[i].body = None
           THEN /\ i = Len(search.events)
                /\ search.pc = "done"
                /\ search.result = Some([ok |-> FALSE, papers |-> <<>>])
           ELSE IF SearchRateLimitedAt(i) THEN SearchRetriesAfter(i) ELSE SearchReturnsAfter(i)
      /\ SearchEmptyWhenExhausted

\* The first attempt was answered with status 503 and the body could not be
\* read: search has returned the error after one request, without a backoff.
C29_UnavailableNotRetried ==
    /\ SearchRunning
    /\ search.pc = "done"
    /\ search.result = Some([ok |-> FALSE, papers |-> <<>>])
    /\ search.events = <<Slept(3), Requested(1), Responded(1, 503, None)>>

\* Three rate-limited answers: waits of 3, 30, 6, 60 and 9 seconds, three
\* requests, and the empty list.
C29_ExhaustedAfterThree ==
    /\ SearchRunning
    /\ search.pc = "done"
    /\ search.result = Some([ok |-> TRUE, papers |-> <<>>])
    /\ Len(search.events) = 11
    /\ search.events[4] = Slept(30) /\ search.events[5] = Slept(6)
    /\ search.events[8] = Slept(60) /\ search.events[9] = Slept(9)
    /\ search.events[11].status = 429


----------------------------------------------------------------------------
(* Translator::translate_paper and parse_translation_response               *)
(* (src/src/translator/mod.rs)                                              *)

\* The ideographs of the two markers and of the failure suffix.
ChBiao == "U+6807"
ChTi == "U+9898"
ChZhai == "U+6458"
ChYao == "U+8981"
ChFan == "U+7FFB"
ChYi == "U+8BD1"
ChShi == "U+5931"
ChBai == "U+8D25"
ChComma == "U+FF0C"
ChQing == "U+8BF7"
ChChong == "U+91CD"
ChShiTry == "U+8BD5"

\* The markers the prompt asks the answer to be laid out with.
TitleMarker == <<"[", ChBiao, ChTi, ChFan, ChYi, "]">>
AbstractMarker == <<"[", ChZhai, ChYao, ChFan, ChYi, "]">>

\* The suffix format! appends to the fallback title.
FailureSuffix == <<" ", "(", ChFan, ChYi, ChShi, ChBai, ChComma, ChQing, ChChong, ChShiTry, ")">>

\* str::find: the offset of the first occurrence of pat in s, counted in
\* characters; every offset find returns is a character boundary, so slices
\* and their bounds checks are the same in characters as in bytes.
StrFind(s, pat) ==
    LET hits == {i \in 0..(Len(s) - Len(pat)) : SubSeq(s, i + 1, i + Len(pat)) = pat}
    IN  IF hits = {} THEN None ELSE Some(SetMin(hits))

\* The fallback of parse_translation_response for the trimmed response.
TranslationFallback(response, fallback_title) == [kind |-> "pair", title |-> fallback_title \o FailureSuffix, abstract |-> response]

\* The arm of parse_translation_response with both markers found, at offsets
\* title_start and abstract_start: response[title_start + len..abstract_start]
\* panics when it begins past its end.
TranslationParts(response, fallback_title, title_start, abstract_start) ==
    IF title_start + Len(TitleMarker) > abstract_start THEN [kind |-> "panic"]
    ELSE LET title_zh == Trim(SubSeq(response, title_start + Len(TitleMarker) + 1, abstract_start))
             abstract_zh == Trim(SubSeq(response, abstract_start + Len(AbstractMarker) + 1, Len(response)))
         IN  IF title_zh # <<>> /\ abstract_zh # <<>>
             THEN [kind |-> "pair", title |-> title_zh, abstract |-> abstract_zh]
             ELSE TranslationFallback(response, fallback_title)

\* parse_translation_response(response, fallback_title) on the trimmed
\* response and the results of the two calls of find.
ParseTrimmedResponse(response, fallback_title, title_start, abstract_start) ==
    IF title_start # None /\ abstract_start # None
    THEN TranslationParts(response, fallback_title, title_start[1], abstract_start[1])
    ELSE TranslationFallback(response, fallback_title)

ParseTranslationResponse(response, fallback_title) ==
    ParseTrimmedResponse(Trim(response), fallback_title, StrFind(Trim(response), TitleMarker), StrFind(Trim(response), AbstractMarker))

\* Most pieces a response of the model is put together from.
MaxPieces == 4

\* The pieces: the two markers, a letter, a blank, a line end and the
\* beginning of a marker.
ResponsePieces == {TitleMarker, AbstractMarker, <<"x">>, <<" ">>, <<"\n">>, <<"[", ChZhai>>}

\* The answers of the API in the model.
TransResponses == {Concat(ps) : ps \in UNION {[1..n -> ResponsePieces] : n \in 0..MaxPieces}}

\* The titles translate_paper is called with.
TransTitles == {<<"P">>, <<"O", "n", " ", "x">>}

\* translate_paper(title, ..) in front of self.call_api(&request).await?.
TransStart(title) == [pc |-> "call_api", title |-> title, response |-> None, result |-> None]

TransInit ==
    /\ trans \in {TransStart(title) : title \in TransTitles}
    /\ PartsIdle /\ refs = Idle /\ crawl = Idle /\ search = Idle

\* self.call_api(&request).await?: the error propagates, else the content
\* of the first choice is the response.
TransCallApi ==
    /\ trans.pc = "call_api"
    /\ \E answer \in {None} \cup {Some(r) : r \in TransResponses} :
         trans' = IF answer = None THEN [trans EXCEPT !.pc = "done", !.result = [kind |-> "err"]]
                  ELSE [trans EXCEPT !.pc = "parse", !.response = answer]
    /\ UNCHANGED <<seg, tab, fex, img, pipe, walk, par, refs, crawl, search>>

\* parse_translation_response(&response, title) and Ok of its pair; a panic
\* of the parse unwinds through translate_paper.
TransParse ==
    /\ trans.pc = "parse"
    /\ \E parsed \in {ParseTranslationResponse(trans.response[1], trans.title)} :
         trans' = [trans EXCEPT !.pc = "done", !.result = parsed]
    /\ UNCHANGED <<seg, tab, fex, img, pipe, walk, par, refs, crawl, search>>

TransNext ==
    \/ TransCallApi
    \/ TransParse

SpecTrans == TransInit /\ [][TransNext]_vars


----------------------------------------------------------------------------
(* Claims about parse_translation_response.                                 *)

\* translate_paper has parsed a response.
TransParsed == trans # Idle /\ trans.pc = "done" /\ trans.response # None

\* The trimmed response that was parsed.
TransTrimmed == Trim(trans.response[1])

\* The text after the first title marker up to the first abstract marker,
\* and the text after the first abstract marker, both trimmed; empty when a
\* marker is missing or the abstract marker comes first.
TransTitlePart ==
    LET t == StrFind(TransTrimmed, TitleMarker)
        a == StrFind(TransTrimmed, AbstractMarker)
    IN  IF t = None \/ a = None THEN <<>>
        ELSE IF a[1] < t[1] THEN <<>>
        ELSE Trim(SubSeq(TransTrimmed, t[1] + Len(TitleMarker) + 1, a[1]))

TransAbstractPart ==
    LET t == StrFind(TransTrimmed, TitleMarker)
        a == StrFind(TransTrimmed, AbstractMarker)
    IN  IF t = None \/ a = None THEN <<>>
        ELSE IF a[1] < t[1] THEN <<>>
        ELSE Trim(SubSeq(TransTrimmed, a[1] + Len(AbstractMarker) + 1, Len(TransTrimmed)))

\* The pair the statement describes.
TransStatedPair ==
    IF TransTitlePart # <<>> /\ TransAbstractPart # <<>>
    THEN [kind |-> "pair", title |-> TransTitlePart, abstract |-> TransAbstractPart]
    ELSE [kind |-> "pair", title |-> trans.title \o FailureSuffix, abstract |-> TransTrimmed]

\* C30: parse_translation_response returns a (title, abstract) pair for
\* every response and never fails: the two parts when both markers are
\* present with non-empty parts, and in every other case (a marker missing,
\* a part empty, the abstract marker before the title marker) the original
\* title with the failure suffix and the whole response as the abstract.
C30_ParseAlwaysReturnsPair ==
    TransParsed => trans.result = TransStatedPair

\* The same for the responses in which the abstract marker does not come in
\* front of the title marker.
C30_PairWhenTitleMarkerFirst ==
    (/\ TransParsed
     /\ ~(/\ StrFind(TransTrimmed, TitleMarker) # None
          /\ StrFind(TransTrimmed, AbstractMarker) # None
          /\ StrFind(TransTrimmed, AbstractMarker)[1] < StrFind(TransTrimmed, TitleMarker)[1]))
      => trans.result = TransStatedPair

\* The response "[abstract marker]x[title marker]x" has ended translate_paper
\* in a panic.
C30_AbstractMarkerFirstPanics ==
    /\ TransParsed
    /\ trans.response[1] = AbstractMarker \o <<"x">> \o TitleMarker \o <<"x">>
    /\ trans.result = [kind |-> "panic"]

\* The response "[title marker]x[abstract marker]x" has been parsed into its
\* two parts.
C30_BothPartsReturned ==
    /\ TransParsed
    /\ trans.response[1] = TitleMarker \o <<"x">> \o AbstractMarker \o <<"x">>
    /\ trans.result = [kind |-> "pair", title |-> <<"x">>, abstract |-> <<"x">>]

====
